---- MODULE Spec2Model ----
(***************************************************************************)
(* WebTwin extraction engine (src/extractor.py): one run of                *)
(* WebsiteExtractor.extract_website as a state machine.  The environment   *)
(* (web server, browser driver, file system, progress callback) answers    *)
(* each request nondeterministically.                                      *)
(***************************************************************************)
EXTENDS Integers, Sequences, FiniteSets, TLC

\* Bound of the model: the largest number of resource-bearing elements of a page.
MaxElements == 2

\* Bounds of the model of concurrent runs: the number of extract_website
\* calls in flight and the half seconds the wall clock may advance.
MaxRuns == 2
MaxClock == 2

\* Bound of the model of the task registry: the number of tasks ever created.
MaxTasks == 1

\* Bounds of the models of file_handler.py: the number of tokens a relative
\* path is made of, the number of files of a source directory and the number
\* of members of an archive.
MaxTokens == 3
MaxFiles == 2
MaxMembers == 2

VARIABLES
    pc,                  \* stage of extract_website
    use_selenium,        \* self.use_selenium
    include_assets,      \* self.include_assets
    fetchMode,           \* which fetch routine runs next: "selenium" / "requests"
    driver,              \* self.driver: "none", "running", "quit"
    hasOutputPath,       \* hasattr(self, 'full_output_path')
    dirExists,           \* os.path.exists(self.full_output_path)
    files,               \* files inside the output directory (relative paths)
    soup,                \* the parsed document: sequence of elements
    category,            \* position of the outer loop of _extract_resources (1..4, 5 = over)
    elements,            \* elements of the current category still to be visited (indices)
    total_resources,     \* local of _extract_resources
    processed_resources, \* local of _extract_resources
    extracted_resources, \* self.extracted_resources
    failed_resources,    \* self.failed_resources
    archive,             \* the file at zip_path: NoArchive or its content
    lastReport,          \* arguments of the last completed progress_callback call
    result,              \* value returned by extract_website, NoResult while running
    cleanupCount,        \* number of _cleanup calls
    raised,              \* history: the failure that ended the run, NoError if none
    absorbed,            \* history: kinds of failures that were absorbed
    requests,            \* history: resource requests issued, in order
    savedHtml,           \* content written to index.html, <<>> before _save_html
    html_content,        \* local of extract_website: the fetched page
    clock,               \* concurrent runs: datetime.now(), in half seconds
    runs,                \* concurrent runs: each call's position and output_dir
    disk,                \* concurrent runs: files under downloads/<output_dir>
    archives,            \* concurrent runs: zip files under downloads/
    site,                \* the pages the web server may answer with: "mixed" / "paths"
    earlier,             \* the earlier call of extract_website on this instance, NoCall if none
    tasks,               \* app.py: keys of the task registry `tasks`
    task,                \* app.py: the ExtractionTask objects, by task id
    thread,              \* app.py: each run_extraction_task thread's position and locals
    poll,                \* app.py: a get_progress request and the dict it builds
    base_path,           \* get_safe_path: argument
    relative_path,       \* get_safe_path: argument
    safe_path,           \* get_safe_path: returned path, NotCalled before the call
    source_files,        \* create_zip: the files os.walk finds, in order
    patterns,            \* create_zip: include_patterns and exclude_patterns
    walked,              \* create_zip: number of files the loop has visited
    zip_entries,         \* create_zip: entries written to the archive
    stats,               \* create_zip: the stats dict
    zip_result,          \* create_zip: returned flag, NotCalled before the return
    members,             \* extract_zip: zipf.infolist()
    visited,             \* extract_zip: number of members the loop has visited
    extracted_files,     \* extract_zip: local list
    extract_to,          \* extract_zip: names written under the target directory
    unzip_result         \* extract_zip: returned pair, NotCalled before the return

vars == <<pc, use_selenium, include_assets, fetchMode, driver, hasOutputPath,
          dirExists, files, soup, category, elements, total_resources,
          processed_resources, extracted_resources, failed_resources, archive,
          lastReport, result, cleanupCount, raised, absorbed, requests, savedHtml,
          html_content, clock, runs, disk, archives, site, earlier,
          tasks, task, thread, poll,
          base_path, relative_path, safe_path,
          source_files, patterns, walked, zip_entries, stats, zip_result,
          members, visited, extracted_files, extract_to, unzip_result>>

appVars == <<tasks, task, thread, poll>>
safePathVars == <<base_path, relative_path, safe_path>>
createZipVars == <<source_files, patterns, walked, zip_entries, stats, zip_result>>
extractZipVars == <<members, visited, extracted_files, extract_to, unzip_result>>
fileVars == <<safePathVars, createZipVars, extractZipVars>>

----------------------------------------------------------------------------
\* Values

NoResult == [success |-> "pending"]
NoError == <<>>
NoArchive == [exists |-> FALSE]
NoReport == [pct |-> -1, step |-> <<"none">>]

\* The fixed error of an empty page (extractor.py line 100).
ErrNoContent == <<"cannot fetch website content">>

\* A file name is base + "_"-joined counters + extension: "a_1.css" is
\* [base "a", sfx <<1>>, ext ".css"].  ext = "" is a name without a dot.
FileName(b, s, e) == [base |-> b, sfx |-> s, ext |-> e]
NoFile == FileName("", <<>>, "")
IndexHtml == [folder |-> "", file |-> FileName("index", <<>>, ".html")]
Manifest == [folder |-> "", file |-> FileName("WebTwin_Info", <<>>, ".txt")]

\* Attribute values of an element.
NoUrl == [t |-> "none"]                \* attribute missing or ""
BadUrl == [t |-> "bad"]                \* a value urljoin rejects (ValueError)
Url(abs, dir, file, qmark) ==
    [t |-> "url", abs |-> abs, dir |-> dir, file |-> file, qmark |-> qmark]
Local(folder, file) == [t |-> "local", folder |-> folder, file |-> file]

FontExts == {".woff", ".ttf", ".eot"}

\* resource_selectors (dict order: css, js, images, fonts)
resource_selectors ==
    << [type |-> "css", tag |-> {"link_stylesheet"}, folder |-> "css", font |-> FALSE],
       [type |-> "js", tag |-> {"script"}, folder |-> "js", font |-> FALSE],
       [type |-> "images", tag |-> {"img"}, folder |-> "images", font |-> FALSE],
       [type |-> "fonts", tag |-> {"link_stylesheet", "link"}, folder |-> "fonts",
        font |-> TRUE] >>

NumCategories == Len(resource_selectors)

ext_map(resource_type) ==
    CASE resource_type = "css" -> ".css"
      [] resource_type = "js" -> ".js"
      [] resource_type = "images" -> ".jpg"
      [] resource_type = "fonts" -> ".woff"
      [] OTHER -> ".txt"

\* The elements a page may hold.  script and img elements carry the src
\* attribute (script[src], img[src]); a link may lack href.  The script and
\* the img with a named file stand for every element one selector matches;
\* the stylesheet links are the ones the fonts selector matches as well,
\* before or after their href is rewritten.
ElementKinds ==
    { [tag |-> "link_stylesheet", attr |-> Url(TRUE, "remote", FileName("a", <<>>, ".css"), TRUE)],
      [tag |-> "link_stylesheet", attr |-> NoUrl],
      [tag |-> "script", attr |-> Url(TRUE, "remote", FileName("b", <<>>, ".js"), FALSE)],
      [tag |-> "link_stylesheet", attr |-> Url(FALSE, "remote", FileName("f", <<>>, ".woff"), FALSE)],
      [tag |-> "script", attr |-> BadUrl],
      [tag |-> "img", attr |-> Url(TRUE, "remote", FileName("a", <<>>, ".png"), FALSE)],
      [tag |-> "img", attr |-> Url(FALSE, "remote", NoFile, FALSE)],
      \* href="http://x/a%2Ewoff": the dot of the extension is percent-encoded
      [tag |-> "link_stylesheet", attr |-> Url(TRUE, "remote", FileName("a", <<>>, "%2Ewoff"), FALSE)] }

Pages == UNION { [1..n -> ElementKinds] : n \in 0..MaxElements }

\* What a fetch may return: an empty text, or a document.
NoHtml == [empty |-> TRUE, doc |-> <<>>]
Htmls == {NoHtml} \cup { [empty |-> FALSE, doc |-> p] : p \in Pages }

\* A file name with an encoded slash: the names of parts joined by "%2F".
Joined(parts) == [joined |-> parts]
Dot == FileName(".", <<>>, "")
DotDot == FileName("..", <<>>, "")

\* Elements whose URL path tries to leave the directory of the download:
\* http://y/a/.. , http://y/%2E%2E , http://y/..%2F..%2Fevil.js ,
\* http://y/a/. and http://y/a/%2E%2E%2F (which ends in a slash once decoded).
PathKinds ==
    { [tag |-> "img", attr |-> Url(TRUE, "remote", DotDot, FALSE)],
      [tag |-> "img", attr |-> Url(TRUE, "remote", FileName("%2E%2E", <<>>, ""), FALSE)],
      [tag |-> "script", attr |-> Url(TRUE, "remote",
                                      Joined(<<DotDot, DotDot, FileName("evil", <<>>, ".js")>>),
                                      FALSE)],
      [tag |-> "script", attr |-> Url(TRUE, "remote", Dot, FALSE)],
      [tag |-> "img", attr |-> Url(TRUE, "remote", Joined(<<DotDot, NoFile>>), FALSE)] }

PathPages == UNION { [1..n -> PathKinds] : n \in 0..MaxElements }
PathHtmls == {NoHtml} \cup { [empty |-> FALSE, doc |-> p] : p \in PathPages }

\* Elements that make the loops of a run longer: two files of one name (the
\* search for a free name), an element visited in two categories, and an
\* element that is skipped.
LoopKinds ==
    { [tag |-> "img", attr |-> Url(TRUE, "remote", FileName("a", <<>>, ".png"), FALSE)],
      [tag |-> "link_stylesheet", attr |-> Url(FALSE, "remote", FileName("f", <<>>, ".woff"), FALSE)],
      [tag |-> "link_stylesheet", attr |-> NoUrl] }

LoopPages == UNION { [1..n -> LoopKinds] : n \in 0..MaxElements }
LoopHtmls == {NoHtml} \cup { [empty |-> FALSE, doc |-> p] : p \in LoopPages }

\* The answers of the web server under test.
HtmlsOf(s) ==
    CASE s = "paths" -> PathHtmls
      [] s = "loops" -> LoopHtmls
      [] OTHER -> Htmls

\* No call of extract_website came before this one.
NoCall == [called |-> FALSE]

----------------------------------------------------------------------------
\* Exceptions and the outcome records

Exc(type, msg) == [type |-> type, msg |-> msg]
\* str(e)
Str(e) == e.msg

OSError == Exc("OSError", <<"os error">>)
CallbackError == Exc("CallbackError", <<"progress callback raised">>)
\* Faulty variant: the cause is left out of the message.
HttpRequestFailedBare(e) == Exc("Exception", <<"HTTP request failed">>)

\* raise Exception(f'HTTP请求失败: {str(e)}')   (_extract_with_requests)
HttpRequestFailed(e) == Exc("Exception", <<"HTTP request failed">> \o Str(e))
EmptyContent == Exc("EmptyContent", ErrNoContent)

\* Faulty variant: the except clause returns a fixed message.
FailureResultGeneric(e) == [success |-> FALSE, error |-> <<"unknown error">>]

\* The dict returned by the except clause of extract_website.
FailureResult(e) == [success |-> FALSE, error |-> Str(e)]

\* The dict returned at the end of the try block.
SuccessResult(zip_path, ok, failed) ==
    [success |-> TRUE, output_path |-> zip_path, resources |-> ok,
     failed_resources |-> failed,
     stats |-> [total_resources |-> Len(ok), failed_resources |-> Len(failed)]]

ZipPath == "downloads/<output_dir>.zip"

----------------------------------------------------------------------------
\* Pure helpers of _extract_resources and _download_resource

\* Does the attribute value contain ".woff", ".ttf" or ".eot"?
HasFontMark(v) ==
    CASE v.t = "url" -> v.qmark \/ v.file.ext \in FontExts
      [] v.t = "local" -> v.file.ext \in FontExts
      [] OTHER -> FALSE

Matches(el, sel) == el.tag \in sel.tag /\ (sel.font => HasFontMark(el.attr))

\* Faulty variant: the matching elements in reverse document order.
SelectReversed(doc, c) ==
    LET found == SelectSeq([i \in 1..Len(doc) |-> i],
                           LAMBDA i : Matches(doc[i], resource_selectors[c]))
    IN [k \in 1..Len(found) |-> found[Len(found) + 1 - k]]

\* soup.select(config['selector']): the matching elements in document order.
Select(doc, c) ==
    SelectSeq([i \in 1..Len(doc) |-> i],
              LAMBDA i : Matches(doc[i], resource_selectors[c]))

RECURSIVE CountFrom(_, _)
CountFrom(doc, c) ==
    IF c > NumCategories THEN 0 ELSE Len(Select(doc, c)) + CountFrom(doc, c + 1)

\* The counting loop of lines 241-243.
CountResources(doc) == CountFrom(doc, 1)

\* Faulty variant: the loop is left after the first visited element.
LoopPositionBreak(doc, c, rest) == [category |-> NumCategories + 1, elements |-> <<>>]

\* The loop position reached when the outer loop is at category c and the
\* inner loop has nothing left: the first category from c on that selects
\* an element, or past the last category.
RECURSIVE NextPosition(_, _)
NextPosition(doc, c) ==
    IF c > NumCategories THEN [category |-> c, elements |-> <<>>]
    ELSE IF Select(doc, c) # <<>> THEN [category |-> c, elements |-> Select(doc, c)]
    ELSE NextPosition(doc, c + 1)

\* The URL of the page itself: urljoin(base_url, '') is base_url.
PageUrl == Url(TRUE, "remote", FileName("page", <<>>, ".html"), FALSE)

\* urljoin(base_url, resource_url) for a value urljoin accepts.
urljoin(v) ==
    CASE v.t = "local" -> Url(TRUE, v.folder, v.file, FALSE)
      [] v.t = "none" -> PageUrl
      [] OTHER -> [v EXCEPT !.abs = TRUE]

\* unquote, applied to the last segment of the URL path: percent-encoded
\* dots and slashes are decoded; the result is the decoded text cut at "/".
unquote(file) ==
    IF "joined" \in DOMAIN file THEN file.joined
    ELSE IF file.ext = "%2Ewoff" THEN <<FileName(file.base, file.sfx, ".woff")>>
    ELSE IF file.base = "%2E%2E" THEN <<DotDot>>
    ELSE <<file>>

\* os.path.basename: what follows the last "/".
basename(segments) == segments[Len(segments)]

\* '.' in filename
HasDot(filename) == filename.ext # "" \/ filename.base \in {".", ".."}

\* Lines 294-305: the file name of a resource.
DeriveFilename(url, resource_type, n) ==
    LET filename == basename(unquote(url.file))
    IN IF filename = NoFile \/ ~HasDot(filename)
       THEN FileName("resource", <<n>>, ext_map(resource_type))
       ELSE filename

\* f'{name}_{counter}{ext}'
Suffixed(filename, counter) ==
    FileName(filename.base, Append(filename.sfx, counter), filename.ext)

\* Faulty variant: only regular files are found to exist.
ExistsFilesOnly(existing, target_path) == target_path \in existing

\* os.path.exists(target_path): a file of the directory, or the directory
\* entries "." and ".." of target_dir, which line 309 has made.
Exists(existing, target_path) ==
    target_path \in existing \/ target_path.file \in {Dot, DotDot}

\* Lines 312-317: the first path of the folder that does not exist yet.
RECURSIVE Probe(_, _, _, _)
Probe(existing, folder, filename, counter) ==
    LET target_path == [folder |-> folder, file |-> Suffixed(filename, counter)]
    IN IF Exists(existing, target_path)
       THEN Probe(existing, folder, filename, counter + 1)
       ELSE target_path

\* Faulty variant: the derived name is used whether or not it exists.
UniqueTargetOverwrite(existing, folder, filename) ==
    [folder |-> folder, file |-> filename]

UniqueTarget(existing, folder, filename) ==
    IF Exists(existing, [folder |-> folder, file |-> filename])
    THEN Probe(existing, folder, filename, 1)
    ELSE [folder |-> folder, file |-> filename]

\* The absolute path of a file of the output directory.
LocalPath(p) == [root |-> "full_output_path", folder |-> p.folder, file |-> p.file]

\* Faulty variant: the link is rewritten to the bare file name.
RelativePathBasename(local_path) == Local("", local_path.file)

\* os.path.relpath(local_path, self.full_output_path).replace('\\', '/')
RelativePath(local_path) == Local(local_path.folder, local_path.file)

\* Faulty variant: the entry is named by the file name alone.
ArcnameBare(p) == [folder |-> "", file |-> p.file]

\* The archive entry name of a file: os.path.relpath(file_path, full_output_path).
Arcname(p) == [folder |-> p.folder, file |-> p.file]

\* int((processed / total) * 40) + 35
Progress(processed, total) == 35 + ((processed * 40) \div total)

\* os.walk: the files of the directory in some order.
RECURSIVE Walk(_)
Walk(fs) ==
    IF fs = {} THEN <<>>
    ELSE LET f == CHOOSE x \in fs : TRUE IN <<f>> \o Walk(fs \ {f})

----------------------------------------------------------------------------
\* _cleanup, as it acts on the driver and on the output directory

\* Faulty variant: the existence test of _cleanup is inverted.
CleanupRemovesInverted(hasPath, exists) == hasPath /\ ~exists

\* Faulty variant: _cleanup leaves the driver alone.
CleanupDriverSkip(drv) == drv

CleanupDriver(drv) == IF drv = "running" THEN "quit" ELSE drv
CleanupRemoves(hasPath, exists) == hasPath /\ exists

\* return res ... finally: self._cleanup()
Return(stage, res, err, drv, hasPath, exists, fs) ==
    /\ pc' = stage
    /\ result' = res
    /\ raised' = err
    /\ driver' = CleanupDriver(drv)
    /\ dirExists' = (exists /\ ~CleanupRemoves(hasPath, exists))
    /\ files' = IF CleanupRemoves(hasPath, exists) THEN {} ELSE fs
    /\ cleanupCount' = cleanupCount + 1

\* Faulty variant: the except clause catches the fetch error only, any other
\* exception leaves extract_website without a returned value.
FailNarrow(e, drv, hasPath, exists, fs) ==
    Return("Failed", IF e.type = "Exception" THEN FailureResult(e) ELSE NoResult,
           e, drv, hasPath, exists, fs)

\* except Exception as e: return {'success': False, 'error': str(e)}
Fail(e, drv, hasPath, exists, fs) ==
    Return("Failed", FailureResult(e), e, drv, hasPath, exists, fs)

\* The run goes on to the given stage.
Continue(stage, drv, exists, fs) ==
    /\ pc' = stage
    /\ driver' = drv
    /\ dirExists' = exists
    /\ files' = fs
    /\ UNCHANGED <<result, raised, cleanupCount>>

Report(pct, step) == [pct |-> pct, step |-> step]
CallbackOutcomes == {"ok", "raise"}

\* The calls of extract_website that run at the same time, each in the
\* thread run_extraction_task of its own task (app.py).
Runs == 1..MaxRuns
Domains == {"x.example", "y.example"}
IdleRun == [st |-> "idle", output_dir |-> <<>>]

----------------------------------------------------------------------------
\* The rest of the program at rest: no task was created (app.py, line 41:
\* tasks = {}) and no method of file_handler.py was called.

TaskIds == 1..MaxTasks
NoTask == [status |-> "none"]
NoThread ==
    [pc |-> "unborn", k |-> 0, result |-> NoResult, output_dir |-> <<>>,
     todo |-> <<>>]
NoPoll == [at |-> 0, id |-> 0, dict |-> <<>>]

AppIdle ==
    /\ tasks = {}
    /\ task = [t \in TaskIds |-> NoTask]
    /\ thread = [t \in TaskIds |-> NoThread]
    /\ poll = NoPoll

NoSafePathCall ==
    /\ base_path = <<>>
    /\ relative_path = <<>>
    /\ safe_path = NoCall

NoCreateZipCall ==
    /\ source_files = <<>>
    /\ patterns = NoCall
    /\ walked = 0
    /\ zip_entries = <<>>
    /\ stats = NoCall
    /\ zip_result = NoCall

NoExtractZipCall ==
    /\ members = <<>>
    /\ visited = 0
    /\ extracted_files = <<>>
    /\ extract_to = {}
    /\ unzip_result = NoCall

----------------------------------------------------------------------------
\* A new WebsiteExtractor (__init__, lines 49-66) before its first call.
InitExtractor ==
    /\ pc = "Init"
    /\ use_selenium \in BOOLEAN
    /\ include_assets \in BOOLEAN
    /\ fetchMode = "requests"
    /\ driver = "none"
    /\ hasOutputPath = FALSE
    /\ dirExists = FALSE
    /\ files = {}
    /\ soup = <<>>
    /\ category = 1
    /\ elements = <<>>
    /\ total_resources = 0
    /\ processed_resources = 0
    /\ extracted_resources = <<>>
    /\ failed_resources = <<>>
    /\ archive = NoArchive
    /\ lastReport = NoReport
    /\ result = NoResult
    /\ cleanupCount = 0
    /\ raised = NoError
    /\ absorbed = {}
    /\ requests = <<>>
    /\ savedHtml = <<>>
    /\ html_content = NoHtml
    /\ clock = 0
    /\ runs = [r \in Runs |-> IdleRun]
    /\ disk = {}
    /\ archives = {}
    /\ earlier = NoCall
    /\ AppIdle

Init == InitExtractor /\ site = "mixed" /\ NoSafePathCall /\ NoCreateZipCall /\ NoExtractZipCall

\* extract_website, lines 78-95: the output directory is made, progress 5 is
\* reported and the fetch routine is chosen.
Setup ==
    /\ pc = "Init"
    /\ \E mk \in {"ok", "oserror"}, cb \in CallbackOutcomes, SELENIUM_AVAILABLE \in BOOLEAN :
         /\ hasOutputPath' = TRUE
         /\ IF mk = "oserror"
            THEN /\ Fail(OSError, driver, TRUE, FALSE, {})
                 /\ UNCHANGED <<lastReport, fetchMode>>
            ELSE IF cb = "raise"
            THEN /\ Fail(CallbackError, driver, TRUE, TRUE, {})
                 /\ UNCHANGED <<lastReport, fetchMode>>
            ELSE /\ Continue("Fetching", driver, TRUE, {})
                 /\ lastReport' = Report(5, <<"init">>)
                 /\ fetchMode' = IF use_selenium /\ SELENIUM_AVAILABLE
                                 THEN "selenium" ELSE "requests"
    /\ UNCHANGED <<appVars, fileVars, site, earlier, clock, runs, disk, archives, use_selenium, include_assets, soup, category, elements,
                   total_resources, processed_resources, extracted_resources,
                   failed_resources, archive, absorbed, requests, savedHtml,
                   html_content>>

\* The elements of the pages a caller may still be served on this instance.
PageBudget == MaxElements - (IF earlier.called THEN Len(earlier.doc) ELSE 0)

\* What the fetch of this call may return.
Answers == { html \in HtmlsOf(site) : Len(html.doc) <= PageBudget }

\* Faulty variant: the fetched text is not tested.
NoContentNever(html) == FALSE

\* `if not html_content` (line 97)
NoContent(html) == html.empty

\* extract_website, lines 97-103: the fetched text is tested, progress 30.
GotHtml(html, drv, cb) ==
    IF NoContent(html)
    THEN /\ Return("Failed", FailureResult(EmptyContent), EmptyContent, drv,
                   hasOutputPath, dirExists, files)
         /\ UNCHANGED <<lastReport, html_content>>
    ELSE IF cb = "raise"
    THEN /\ Fail(CallbackError, drv, hasOutputPath, dirExists, files)
         /\ UNCHANGED <<lastReport, html_content>>
    ELSE /\ Continue("Parsing", drv, dirExists, files)
         /\ lastReport' = Report(30, <<"fetched">>)
         /\ html_content' = html

\* What the try block of _extract_with_selenium may do.  The driver is
\* started after progress 10 and the page loaded after progress 15.
RenderOutcomes ==
    {"ok", "driver_error", "load_error", "callback_error_10", "callback_error_15"}
DriverStarted(r) == r \in {"ok", "load_error", "callback_error_15"}

\* Faulty variant: the rendering failure is raised instead of absorbed.
RenderFailedRaises(drv, cb) ==
    /\ Fail(Exc("RenderError", <<"rendering failed">>), drv, hasOutputPath, dirExists, files)
    /\ UNCHANGED <<lastReport, html_content, fetchMode, absorbed>>

\* The except clause of _extract_with_selenium (lines 184-187): progress 0,
\* then the requests fetch runs.
RenderFailed(drv, cb) ==
    IF cb = "raise"
    THEN /\ Fail(CallbackError, drv, hasOutputPath, dirExists, files)
         /\ UNCHANGED <<lastReport, html_content, fetchMode, absorbed>>
    ELSE /\ Continue("Fetching", drv, dirExists, files)
         /\ lastReport' = Report(0, <<"selenium failed">>)
         /\ fetchMode' = "requests"
         /\ absorbed' = absorbed \cup {"render"}
         /\ UNCHANGED html_content

\* _extract_with_selenium (lines 139-187), up to the fallback.
FetchSelenium ==
    /\ pc = "Fetching"
    /\ fetchMode = "selenium"
    /\ \E r \in RenderOutcomes, html \in Answers, cb \in CallbackOutcomes :
         LET drv == IF DriverStarted(r) THEN "running" ELSE driver
         IN IF r = "ok"
            THEN /\ GotHtml(html, drv, cb)
                 /\ UNCHANGED <<fetchMode, absorbed>>
            ELSE RenderFailed(drv, cb)
    /\ UNCHANGED <<appVars, fileVars, site, earlier, clock, runs, disk, archives, use_selenium, include_assets, hasOutputPath, soup, category,
                   elements, total_resources, processed_resources,
                   extracted_resources, failed_resources, archive, requests,
                   savedHtml>>

\* What the try block of _extract_with_requests may do.
RequestOutcomes == {"ok", "http_status", "timeout", "callback_error"}
RequestError(r) == Exc(r, <<r>>)

\* _extract_with_requests (lines 189-206).
FetchRequests ==
    /\ pc = "Fetching"
    /\ fetchMode = "requests"
    /\ \E r \in RequestOutcomes, html \in Answers, cb \in CallbackOutcomes :
         IF r = "ok"
         THEN GotHtml(html, driver, cb)
         ELSE /\ Fail(HttpRequestFailed(RequestError(r)), driver, hasOutputPath,
                      dirExists, files)
              /\ UNCHANGED <<lastReport, html_content>>
    /\ UNCHANGED <<appVars, fileVars, site, earlier, clock, runs, disk, archives, use_selenium, include_assets, fetchMode, hasOutputPath, soup,
                   category, elements, total_resources, processed_resources,
                   extracted_resources, failed_resources, archive, absorbed,
                   requests, savedHtml>>

\* Faulty variant: the resources are extracted whatever the flag says.
AssetsSkippedNever(flag) == FALSE

\* `if not self.include_assets: return` (lines 210-211)
AssetsSkipped(flag) == ~flag

\* BeautifulSoup(html_content) and the head of _extract_resources
\* (lines 106-107, 208-245): the resources are counted, progress 35.
Parse ==
    /\ pc = "Parsing"
    /\ soup' = html_content.doc
    /\ IF AssetsSkipped(include_assets)
       THEN /\ Continue("Downloading", driver, dirExists, files)
            /\ category' = NumCategories + 1
            /\ elements' = <<>>
            /\ UNCHANGED <<total_resources, processed_resources, lastReport>>
       ELSE \E cb \in CallbackOutcomes :
              /\ total_resources' = CountResources(soup')
              /\ processed_resources' = 0
              /\ IF cb = "raise"
                 THEN /\ Fail(CallbackError, driver, hasOutputPath, dirExists, files)
                      /\ UNCHANGED <<lastReport, category, elements>>
                 ELSE /\ Continue("Downloading", driver, dirExists, files)
                      /\ lastReport' = Report(35, <<"found", total_resources'>>)
                      /\ category' = NextPosition(soup', 1).category
                      /\ elements' = NextPosition(soup', 1).elements
    /\ UNCHANGED <<appVars, fileVars, site, earlier, clock, runs, disk, archives, use_selenium, include_assets, fetchMode, hasOutputPath,
                   extracted_resources, failed_resources, archive, absorbed,
                   requests, savedHtml, html_content>>

\* What the request of _download_resource may do: the body is stored, the
\* request fails before the target file is opened (status, timeout), or the
\* body breaks off after the target file was opened.
DownloadOutcomes == {"ok", "http_error", "stream_error"}

\* _download_resource (lines 290-331): the path it returns, NoPath for None,
\* and the files of the output directory after it.
NoPath == [root |-> "None"]
TargetPath(fs, url, folder, resource_type, n) ==
    UniqueTarget(fs, folder, DeriveFilename(url, resource_type, n))
\* Faulty variant: _download_resource never returns the path.
DownloadedPathNever(fs, url, folder, resource_type, n, out) == NoPath

\* Faulty variant: the target path is returned after a failed request too.
DownloadedPathAlways(fs, url, folder, resource_type, n, out) ==
    LocalPath(TargetPath(fs, url, folder, resource_type, n))
DownloadedPath(fs, url, folder, resource_type, n, out) ==
    IF out = "ok" THEN LocalPath(TargetPath(fs, url, folder, resource_type, n))
    ELSE NoPath
DownloadedFiles(fs, url, folder, resource_type, n, out) ==
    IF out = "http_error" THEN fs
    ELSE fs \cup {TargetPath(fs, url, folder, resource_type, n)}

\* The entry appended to self.extracted_resources (lines 272-277).
ExtractedEntry(resource_type, absolute_url, local_path) ==
    [type |-> resource_type, original_url |-> absolute_url, local_path |-> local_path]

\* The entry appended to self.failed_resources (lines 280-284).
FailedEntry(resource_url, e, resource_type) ==
    [url |-> resource_url, error |-> Str(e), type |-> resource_type]

\* Faulty variant: the test for an empty attribute is missing.
SkipsNever(resource_url) == FALSE

\* `if not resource_url: continue` (lines 254-255).
Skips(resource_url) == resource_url.t = "none"

\* Faulty variant: the outer loop never moves on to the next category.
LoopPositionStuck(doc, c, rest) == [category |-> c, elements |-> rest]

\* The inner loop advances to the next element.
LoopPosition(doc, c, rest) ==
    IF rest # <<>> THEN [category |-> c, elements |-> rest]
    ELSE NextPosition(doc, c + 1)

\* One pass of the inner loop of _extract_resources (lines 251-288).
DownloadResource ==
    /\ pc = "Downloading"
    /\ elements # <<>>
    /\ LET i == Head(elements)
           config == resource_selectors[category]
           resource_url == soup[i].attr
       IN \E out \in DownloadOutcomes, cb \in CallbackOutcomes :
            IF Skips(resource_url)
            THEN \* continue
                 /\ Continue("Downloading", driver, dirExists, files)
                 /\ category' = LoopPosition(soup, category, Tail(elements)).category
                 /\ elements' = LoopPosition(soup, category, Tail(elements)).elements
                 /\ UNCHANGED <<soup, processed_resources, extracted_resources,
                                failed_resources, lastReport, absorbed, requests>>
            ELSE LET ok == resource_url.t # "bad"
                     absolute_url == urljoin(resource_url)
                     n == Len(extracted_resources)
                     local_path ==
                         DownloadedPath(files, absolute_url, config.folder, config.type, n, out)
                     fs == IF ok
                           THEN DownloadedFiles(files, absolute_url, config.folder,
                                                config.type, n, out)
                           ELSE files
                     doc == IF ok /\ local_path # NoPath
                            THEN [soup EXCEPT ![i].attr = RelativePath(local_path)]
                            ELSE soup
                 IN /\ soup' = doc
                    /\ requests' = IF ok
                                   THEN Append(requests, [element |-> i, url |-> absolute_url,
                                                          type |-> config.type, outcome |-> out,
                                                          path |-> local_path,
                                                          filename |-> DeriveFilename(absolute_url, config.type, n)])
                                   ELSE requests
                    /\ extracted_resources' =
                         IF ok /\ local_path # NoPath
                         THEN Append(extracted_resources,
                                     ExtractedEntry(config.type, absolute_url, local_path))
                         ELSE extracted_resources
                    /\ failed_resources' =
                         IF ok THEN failed_resources
                         ELSE Append(failed_resources,
                                     FailedEntry(resource_url, Exc("ValueError", <<"invalid url">>),
                                                 config.type))
                    /\ absorbed' = IF ok /\ local_path # NoPath THEN absorbed
                                   ELSE absorbed \cup {"download"}
                    /\ processed_resources' = processed_resources + 1
                    /\ IF cb = "raise"
                       THEN /\ Fail(CallbackError, driver, hasOutputPath, dirExists, fs)
                            /\ UNCHANGED <<lastReport, category, elements>>
                       ELSE /\ Continue("Downloading", driver, dirExists, fs)
                            /\ lastReport' =
                                 Report(Progress(processed_resources', total_resources),
                                        <<"processed", processed_resources', total_resources>>)
                            /\ category' = LoopPosition(doc, category, Tail(elements)).category
                            /\ elements' = LoopPosition(doc, category, Tail(elements)).elements
    /\ UNCHANGED <<appVars, fileVars, site, earlier, clock, runs, disk, archives, use_selenium, include_assets, fetchMode, hasOutputPath,
                   total_resources, archive, savedHtml, html_content>>

\* extract_website, line 109: _extract_resources has returned, progress 80.
FinishExtractResources ==
    /\ pc = "Downloading"
    /\ elements = <<>>
    /\ category > NumCategories
    /\ \E cb \in CallbackOutcomes :
         IF cb = "raise"
         THEN /\ Fail(CallbackError, driver, hasOutputPath, dirExists, files)
              /\ UNCHANGED lastReport
         ELSE /\ Continue("Rewriting", driver, dirExists, files)
              /\ lastReport' = Report(80, <<"packing">>)
    /\ UNCHANGED <<appVars, fileVars, site, earlier, clock, runs, disk, archives, use_selenium, include_assets, fetchMode, hasOutputPath, soup,
                   category, elements, total_resources, processed_resources,
                   extracted_resources, failed_resources, archive, absorbed,
                   requests, savedHtml, html_content>>

\* _save_html (lines 333-347): the document is written to index.html.
SaveHtml ==
    /\ pc = "Rewriting"
    /\ \E w \in {"ok", "oserror"} :
         IF w = "oserror"
         THEN /\ Fail(OSError, driver, hasOutputPath, dirExists, files)
              /\ UNCHANGED savedHtml
         ELSE /\ Continue("Packaging", driver, dirExists, files \cup {IndexHtml})
              /\ savedHtml' = soup
    /\ UNCHANGED <<appVars, fileVars, site, earlier, clock, runs, disk, archives, use_selenium, include_assets, fetchMode, hasOutputPath, soup,
                   category, elements, total_resources, processed_resources,
                   extracted_resources, failed_resources, archive, lastReport,
                   absorbed, requests, html_content>>

\* Faulty variant: the manifest counts every visited resource as extracted.
InfoContentProcessed ==
    [mode |-> IF use_selenium THEN "Selenium" ELSE "HTTP",
     extracted |-> processed_resources,
     failed |-> Len(failed_resources)]

\* The text of WebTwin_Info.txt (lines 364-388), as far as it varies.
InfoContent ==
    [mode |-> IF use_selenium THEN "Selenium" ELSE "HTTP",
     extracted |-> Len(extracted_resources),
     failed |-> Len(failed_resources)]

\* Faulty variant: the zip file is returned before anything was written to it.
CompleteArchiveEmpty(fs) == [exists |-> TRUE, complete |-> FALSE, entries |-> <<>>]

\* The zip file once every file and the manifest are written.
CompleteArchive(fs) ==
    [exists |-> TRUE, complete |-> TRUE,
     entries |-> [k \in 1..Len(Walk(fs)) |-> Arcname(Walk(fs)[k])] \o <<Arcname(Manifest)>>,
     info |-> InfoContent]

\* The zip file left behind when writing entry k + 1 raised: the with
\* statement closes the file, nothing removes it.
PartialArchive(fs, k) ==
    [exists |-> TRUE, complete |-> FALSE,
     entries |-> [j \in 1..k |-> Arcname(Walk(fs)[j])]]

\* _create_zip_archive and the end of extract_website (lines 115-129, 349-391).
CreateZipArchive ==
    /\ pc = "Packaging"
    /\ \E z \in {"ok", "open_error", "write_error"} :
         IF z = "open_error"
         THEN /\ Fail(OSError, driver, hasOutputPath, dirExists, files)
              /\ UNCHANGED <<archive, lastReport>>
         ELSE IF z = "write_error"
         THEN /\ Fail(OSError, driver, hasOutputPath, dirExists, files)
              /\ \E k \in 0..Cardinality(files) : archive' = PartialArchive(files, k)
              /\ UNCHANGED lastReport
         ELSE /\ archive' = CompleteArchive(files)
              /\ \E cb \in CallbackOutcomes :
                   IF cb = "raise"
                   THEN /\ Fail(CallbackError, driver, hasOutputPath, dirExists, files)
                        /\ UNCHANGED lastReport
                   ELSE /\ Return("Done",
                                  SuccessResult(ZipPath, extracted_resources, failed_resources),
                                  NoError, driver, hasOutputPath, dirExists, files)
                        /\ lastReport' = Report(100, <<"done">>)
    /\ UNCHANGED <<appVars, fileVars, site, earlier, clock, runs, disk, archives, use_selenium, include_assets, fetchMode, hasOutputPath, soup,
                   category, elements, total_resources, processed_resources,
                   extracted_resources, failed_resources, absorbed, requests,
                   savedHtml, html_content>>

Next ==
    \/ Setup
    \/ FetchSelenium
    \/ FetchRequests
    \/ Parse
    \/ DownloadResource
    \/ FinishExtractResources
    \/ SaveHtml
    \/ CreateZipArchive

Spec == Init /\ [][Next]_vars

----------------------------------------------------------------------------
\* Shape of the state.
Stages ==
    {"Init", "Fetching", "Parsing", "Downloading", "Rewriting", "Packaging",
     "Done", "Failed"}

TypeOK ==
    /\ pc \in Stages
    /\ driver \in {"none", "running", "quit"}
    /\ fetchMode \in {"selenium", "requests"}
    /\ category \in 1..(NumCategories + 1)
    /\ processed_resources \in Nat
    /\ cleanupCount \in Nat

----------------------------------------------------------------------------
\* Vocabulary of the properties

Terminal == pc \in {"Done", "Failed"}
AfterDownloading == pc \in {"Rewriting", "Packaging", "Done"}

\* The page as it was fetched, before any link was rewritten.
OriginalDoc == html_content.doc

\* Element i of the fetched page is selected by one of the four selectors.
Discovered(i) ==
    \E c \in 1..NumCategories : Matches(OriginalDoc[i], resource_selectors[c])

RequestsFor(i) == { k \in 1..Len(requests) : requests[k].element = i }
NoSuccessfulRequest(i) == \A k \in RequestsFor(i) : requests[k].outcome # "ok"

\* Failures that end the run: they are not absorbed by a stage.
StageFailureTypes == {"OSError", "CallbackError", "Exception", "EmptyContent"}

StageAfter(st) ==
    CASE st = "Init" -> "Fetching"
      [] st = "Fetching" -> "Parsing"
      [] st = "Parsing" -> "Downloading"
      [] st = "Downloading" -> "Rewriting"
      [] st = "Rewriting" -> "Packaging"
      [] st = "Packaging" -> "Done"
      [] OTHER -> "none"

\* Every link of the document that names a local path names the file some
\* successful request of that element stored; elements without a successful
\* request keep the attribute of the fetched page.
LinksFaithful(doc) ==
    \A i \in 1..Len(doc) :
        /\ NoSuccessfulRequest(i) => doc[i].attr = OriginalDoc[i].attr
        /\ doc[i].attr.t = "local" =>
             \E k \in RequestsFor(i) :
                 /\ requests[k].outcome = "ok"
                 /\ RelativePath(requests[k].path) = doc[i].attr

----------------------------------------------------------------------------
\* C1: a failed resource download never aborts the run: once the download
\* loop is over every discovered element with a usable URL has been requested,
\* a run ends Failed only on a stage failure (never on a download failure),
\* and a run that reaches Done returns success with whatever failed downloads.
C1_DownloadFailureNeverAborts ==
    /\ (AfterDownloading /\ include_assets) =>
          \A i \in 1..Len(OriginalDoc) :
              (Discovered(i) /\ OriginalDoc[i].attr.t = "url") => RequestsFor(i) # {}
    /\ pc = "Failed" => raised.type \in StageFailureTypes
    /\ pc = "Done" => result.success = TRUE

\* A successful run in which a download failed and a later one was attempted.
C1_Witness ==
    /\ pc = "Done"
    /\ result.success = TRUE
    /\ \E k \in 1..Len(requests) : requests[k].outcome # "ok" /\ k < Len(requests)

\* C2: every download failure is recorded: after the download loop each
\* attempted resource is in exactly one of the two lists, so the lengths of
\* extracted_resources and failed_resources add up to the number attempted.
C2_EveryFailureRecorded ==
    AfterDownloading =>
        Len(extracted_resources) + Len(failed_resources) = processed_resources

C5_RewrittenLinkInArchive ==
    pc = "Done" =>
        \A i \in 1..Len(savedHtml) :
            savedHtml[i].attr.t = "local" =>
                \E j \in 1..Len(archive.entries), k \in RequestsFor(i) :
                    /\ archive.entries[j] = [folder |-> savedHtml[i].attr.folder,
                                             file |-> savedHtml[i].attr.file]
                    /\ requests[k].outcome = "ok"
                    /\ requests[k].path = LocalPath(archive.entries[j])

\* A finished run with a rewritten link to a file renamed after a collision.
C5_Witness ==
    /\ pc = "Done"
    /\ \E i \in 1..Len(savedHtml) :
          /\ savedHtml[i].attr.t = "local"
          /\ savedHtml[i].attr.file.sfx = <<1>>
          /\ savedHtml[i].attr.file.base # "resource"

\* C6: the stages are passed in the order Init, Fetching, Parsing,
\* Downloading, Rewriting, Packaging, Done, never backwards; the only other
\* transition is to Failed, taken exactly when a failure that no stage absorbs
\* occurs, and the Failed outcome carries the description of that failure.
C6_StageOrder ==
    /\ [][pc' # pc => /\ pc \notin {"Done", "Failed"}
                      /\ pc' = StageAfter(pc) \/ pc' = "Failed"]_vars
    /\ [](pc = "Failed" => /\ raised # NoError
                           /\ raised.type \in StageFailureTypes
                           /\ result = [success |-> FALSE, error |-> Str(raised)])
    /\ [](raised # NoError => pc = "Failed")

\* A run that failed in Fetching on the static fetch.
C6_Witness ==
    /\ pc = "Failed"
    /\ raised = HttpRequestFailed(RequestError("timeout"))
    /\ result.error = <<"HTTP request failed", "timeout">>

\* C7: extract_website always returns a structured outcome: when the run has
\* ended a value was returned, and after a failure of any stage it is
\* {success: false, error: <message>} with a message.
C7_StructuredOutcome ==
    /\ Terminal => result # NoResult
    /\ pc = "Failed" => /\ DOMAIN result = {"success", "error"}
                        /\ result.success = FALSE
                        /\ result.error # <<>>
    /\ pc = "Done" => result.success = TRUE

\* A run ended by an exception of the progress callback during the downloads.
C7_Witness ==
    /\ pc = "Failed"
    /\ raised = CallbackError
    /\ requests # <<>>
    /\ result = [success |-> FALSE, error |-> Str(CallbackError)]

C9_NoPartialArchive ==
    (pc = "Failed" /\ raised = OSError) => ~archive.exists

\* C10: in rendered mode a rendering failure is absorbed by the fallback to
\* the static fetch: the rendering step ends the run only through the empty
\* page test or the progress callback, after a rendering failure the static
\* fetch runs, and the run that then reaches Done returns success.
C10_RenderFallback ==
    /\ [][(pc = "Fetching" /\ fetchMode = "selenium") =>
             /\ pc' = "Failed" => raised' \in {CallbackError, EmptyContent}
             /\ pc' = "Fetching" => fetchMode' = "requests" /\ "render" \in absorbed'
             /\ ("render" \in absorbed' /\ pc' # "Failed") => pc' = "Fetching"]_vars
    /\ []((pc = "Done" /\ "render" \in absorbed) => result.success = TRUE)

\* A successful run whose rendering had failed.
C10_Witness ==
    /\ pc = "Done"
    /\ use_selenium
    /\ "render" \in absorbed
    /\ result.success = TRUE

----------------------------------------------------------------------------
\* Vocabulary of the properties on naming, order and rewriting

LastOf(seq) == seq[Len(seq)]

\* A request was issued in this step.
Requested == Len(requests') = Len(requests) + 1

\* Position of a resource type in resource_selectors, and its folder.
CategoryOf(resource_type) ==
    CHOOSE c \in 1..NumCategories : resource_selectors[c].type = resource_type
FolderOf(resource_type) == resource_selectors[CategoryOf(resource_type)].folder

\* The file of the output directory a returned path names.
FileOf(local_path) == [folder |-> local_path.folder, file |-> local_path.file]

\* The request got the default name resource_<n><ext>.
DefaultNamed(k) == requests[k].filename.base = "resource"
NumberOf(k) == requests[k].filename.sfx[1]

OkRequests == SelectSeq(requests, LAMBDA r : r.outcome = "ok")

\* The last successful request of element i.
LastOk(i) ==
    CHOOSE k \in RequestsFor(i) :
        /\ requests[k].outcome = "ok"
        /\ \A j \in RequestsFor(i) : requests[j].outcome = "ok" => j <= k

\* Every element with a successful request links to the file that request stored.
LinksRewritten(doc) ==
    \A i \in 1..Len(doc) :
        ~NoSuccessfulRequest(i) =>
            /\ doc[i].attr.t = "local"
            /\ doc[i].attr = Local(FolderOf(requests[LastOk(i)].type),
                                   requests[LastOk(i)].path.file)

----------------------------------------------------------------------------
C12_ManifestLastAndCounts ==
    /\ (archive.exists /\ archive.complete) =>
          /\ LastOf(archive.entries) = Arcname(Manifest)
          /\ Cardinality({ j \in 1..Len(archive.entries) :
                             archive.entries[j] = Arcname(Manifest) }) = 1
    /\ pc = "Done" =>
          /\ archive.exists /\ archive.complete
          /\ archive.info.extracted = Len(result.resources)
          /\ archive.info.failed = Len(result.failed_resources)

\* A successful run with one extracted and one failed resource in the manifest.
C12_Witness ==
    /\ pc = "Done"
    /\ archive.info.extracted = 1
    /\ archive.info.failed = 1
    /\ Len(archive.entries) = 3

\* C13: a file is stored under its derived name when that is free in the
\* category directory, else as <name>_<k><ext> with the smallest k >= 1 that
\* is free; it never replaces an existing file, and no two extracted
\* resources share a local path.
C13_CollisionResolution ==
    /\ [](\A k1, k2 \in 1..Len(extracted_resources) :
             k1 # k2 => extracted_resources[k1].local_path
                          # extracted_resources[k2].local_path)
    /\ [][(Requested /\ LastOf(requests').outcome = "ok") =>
             LET r == LastOf(requests')
                 folder == FolderOf(r.type)
                 taken(name) == [folder |-> folder, file |-> name] \in files
             IN /\ r.path.folder = folder
                /\ FileOf(r.path) \notin files
                /\ IF ~taken(r.filename)
                   THEN r.path.file = r.filename
                   ELSE \E k \in 1..(Cardinality(files) + 1) :
                           /\ r.path.file = Suffixed(r.filename, k)
                           /\ \A j \in 1..(k - 1) : taken(Suffixed(r.filename, j))]_vars

\* Two resources of one category with the same file name: the second got _1.
C13_Witness ==
    \E k1, k2 \in 1..Len(extracted_resources) :
        /\ k1 < k2
        /\ extracted_resources[k1].type = extracted_resources[k2].type
        /\ extracted_resources[k1].original_url.file = extracted_resources[k2].original_url.file
        /\ extracted_resources[k2].local_path.file
             = Suffixed(extracted_resources[k1].local_path.file, 1)

\* C14: in resource_<n><ext> the number n is the count of the resources
\* attempted before, failed attempts and all categories included, so it grows
\* from one default-named resource to the next and is never used twice.
C14_ResourceNumbering ==
    /\ \A k \in 1..Len(requests) : DefaultNamed(k) => NumberOf(k) >= k - 1
    /\ \A k1, k2 \in 1..Len(requests) :
          (k1 < k2 /\ DefaultNamed(k1) /\ DefaultNamed(k2)) => NumberOf(k1) < NumberOf(k2)

\* C15: every discovered element is requested at most once in a run, also
\* after a failure and also when it matches the selectors of two categories.
C15_AtMostOneAttempt ==
    \A i \in 1..Len(soup) : Cardinality(RequestsFor(i)) <= 1

\* C16: while the downloads go on, the report after a visited resource lies in
\* the band 35..75, is
\* 35 + floor(40 * processed / total) and names processed and total.
C16_ProgressBand ==
    (pc = "Downloading" /\ lastReport.step[1] = "processed") =>
        /\ lastReport.pct >= 35 /\ lastReport.pct <= 75
        /\ lastReport.pct = 35 + ((40 * lastReport.step[2]) \div lastReport.step[3])
        /\ lastReport.step[2] = processed_resources
        /\ lastReport.step[3] = total_resources

\* C18: an element without a URL attribute value is skipped: no request is
\* issued for it and neither list gets an entry.
C18_EmptyUrlSkipped ==
    /\ [](\A i \in 1..Len(OriginalDoc) :
             OriginalDoc[i].attr.t = "none" => RequestsFor(i) = {})
    /\ [][(pc = "Downloading" /\ elements # <<>> /\ soup[Head(elements)].attr.t = "none")
            => UNCHANGED <<requests, extracted_resources, failed_resources>>]_vars

\* A finished run that skipped an element and downloaded another.
C18_Witness ==
    /\ pc = "Done"
    /\ extracted_resources # <<>>
    /\ \E i \in 1..Len(savedHtml) :
          OriginalDoc[i].attr.t = "none" /\ savedHtml[i].attr.t = "none"

\* C19: the resources are requested category by category in the order css,
\* js, images, fonts and in document order inside a category, and the entries
\* of extracted_resources are the successful requests in that order.
C19_DiscoveryOrder ==
    /\ \A k1, k2 \in 1..Len(requests) :
          k1 < k2 =>
             \/ CategoryOf(requests[k1].type) < CategoryOf(requests[k2].type)
             \/ /\ requests[k1].type = requests[k2].type
                /\ requests[k1].element < requests[k2].element
    /\ Len(extracted_resources) = Len(OkRequests)
    /\ \A j \in 1..Len(OkRequests) :
          extracted_resources[j] =
              ExtractedEntry(OkRequests[j].type, OkRequests[j].url, OkRequests[j].path)

\* A finished run in which the later element of the page was downloaded
\* first, its category coming first.
C19_Witness ==
    /\ pc = "Done"
    /\ Len(requests) = 2
    /\ Len(extracted_resources) = 2
    /\ requests[1].element > requests[2].element

\* C20: an element whose resource was downloaded has its URL attribute
\* rewritten to <category folder>/<file name> of the stored file, in the
\* document and in the saved HTML.
C20_DownloadedLinksRewritten == LinksRewritten(soup) /\ LinksRewritten(savedHtml)

\* A finished run whose saved HTML links an image with an absolute URL locally.
C20_Witness ==
    /\ pc = "Done"
    /\ \E i \in 1..Len(savedHtml) :
          /\ OriginalDoc[i].attr.t = "url"
          /\ OriginalDoc[i].attr.abs
          /\ savedHtml[i].attr = Local("images", FileName("a", <<>>, ".png"))

----------------------------------------------------------------------------
\* Concurrent runs: what several calls of extract_website, each on its own
\* WebsiteExtractor in its own thread, do to the directory downloads/.

runVars == <<pc, use_selenium, include_assets, fetchMode, driver, hasOutputPath,
             dirExists, files, soup, category, elements, total_resources,
             processed_resources, extracted_resources, failed_resources, archive,
             lastReport, result, cleanupCount, raised, absorbed, requests,
             savedHtml, html_content, site, earlier, appVars, fileVars>>

\* datetime.now().strftime('%Y%m%d_%H%M%S'): the time cut to whole seconds.
Timestamp(now) == now \div 2

\* f'webtwin_{self.domain}_{timestamp}'  (line 85)
OutputDir(domain, now) == <<"webtwin", domain, Timestamp(now)>>

\* os.path.join('downloads', f'{self.output_dir}.zip')  (lines 351-352)
ZipPathOf(output_dir) == output_dir \o <<".zip">>

Active(r) == runs[r].st \in {"started", "written", "zipped"}

\* Half a second of wall-clock time passes.
Tick ==
    /\ clock < MaxClock
    /\ clock' = clock + 1
    /\ UNCHANGED <<runs, disk, archives>>
    /\ UNCHANGED runVars

\* Lines 80-87: the output directory is named and made (exist_ok=True).
StartRun(r) ==
    /\ runs[r].st = "idle"
    /\ \E domain \in Domains :
         runs' = [runs EXCEPT ![r] = [st |-> "started",
                                      output_dir |-> OutputDir(domain, clock)]]
    /\ UNCHANGED <<clock, disk, archives>>
    /\ UNCHANGED runVars

\* _download_resource and _save_html write into the output directory; a file
\* of the same path is replaced.
WriteFiles(r) ==
    /\ runs[r].st = "started"
    /\ runs' = [runs EXCEPT ![r].st = "written"]
    /\ disk' = { f \in disk : f.dir # runs[r].output_dir }
                 \cup {[dir |-> runs[r].output_dir, writer |-> r]}
    /\ UNCHANGED <<clock, archives>>
    /\ UNCHANGED runVars

\* _create_zip_archive: every file found under the output directory is
\* written to the archive at zip_path, which replaces a file of that path.
WriteArchive(r) ==
    /\ runs[r].st = "written"
    /\ runs' = [runs EXCEPT ![r].st = "zipped"]
    /\ archives' = { a \in archives : a.path # ZipPathOf(runs[r].output_dir) }
                     \cup {[path |-> ZipPathOf(runs[r].output_dir), writer |-> r,
                            holds |-> { f.writer : f \in { g \in disk :
                                                    g.dir = runs[r].output_dir } }]}
    /\ UNCHANGED <<clock, disk>>
    /\ UNCHANGED runVars

\* _cleanup, lines 402-407: shutil.rmtree(self.full_output_path).
CleanupRun(r) ==
    /\ runs[r].st = "zipped"
    /\ runs' = [runs EXCEPT ![r].st = "done"]
    /\ disk' = { f \in disk : f.dir # runs[r].output_dir }
    /\ UNCHANGED <<clock, archives>>
    /\ UNCHANGED runVars

NextRuns ==
    \/ Tick
    \/ \E r \in Runs : StartRun(r)
    \/ \E r \in Runs : WriteFiles(r)
    \/ \E r \in Runs : WriteArchive(r)
    \/ \E r \in Runs : CleanupRun(r)

InitRuns == Init /\ ~use_selenium /\ include_assets

SpecRuns == InitRuns /\ [][NextRuns]_vars

\* C17: two runs in flight never have the same output directory (nor the
\* same archive path), so an archive holds only files its own run wrote and a
\* run's cleanup removes no file of a run still in flight.
C17_RunsIsolated ==
    /\ \A r1, r2 \in Runs :
          (r1 # r2 /\ Active(r1) /\ Active(r2)) =>
              /\ runs[r1].output_dir # runs[r2].output_dir
              /\ ZipPathOf(runs[r1].output_dir) # ZipPathOf(runs[r2].output_dir)
    /\ \A a \in archives : a.holds \subseteq {a.writer}
    /\ \A r \in Runs :
          runs[r].st \in {"written", "zipped"} =>
              [dir |-> runs[r].output_dir, writer |-> r] \in disk

----------------------------------------------------------------------------
\* A run against a server whose resource URLs try to leave the directory of
\* the download.

\* The run fetches with requests; the page and every resource answer freely.
NextStatic ==
    \/ Setup
    \/ FetchRequests
    \/ Parse
    \/ DownloadResource
    \/ FinishExtractResources
    \/ SaveHtml
    \/ CreateZipArchive

InitPaths == InitExtractor /\ NoSafePathCall /\ NoCreateZipCall /\ NoExtractZipCall /\ site = "paths" /\ ~use_selenium /\ include_assets

SpecPaths == InitPaths /\ [][NextStatic]_vars

CategoryFolders == { resource_selectors[c].folder : c \in 1..NumCategories }

\* The name is one entry of its directory: no "/" in it, not "." and not "..".
PlainName(file) ==
    /\ "joined" \notin DOMAIN file
    /\ file \notin {Dot, DotDot, NoFile}

\* C21: the local path of every extracted resource lies under the working
\* directory in the folder of its category, and every file a download made
\* is a plain entry of one of the category folders, whatever the URL path.
C21_DownloadsStayInside ==
    /\ \A k \in 1..Len(extracted_resources) :
          LET r == extracted_resources[k]
          IN /\ r.local_path.root = "full_output_path"
             /\ r.local_path.folder = FolderOf(r.type)
             /\ PlainName(r.local_path.file)
    /\ \A f \in files :
          \/ f = IndexHtml
          \/ f.folder \in CategoryFolders /\ PlainName(f.file)

\* A finished run that stored http://y/%2E%2E (or http://y/a/..) as
\* images/.._1 and the URL with encoded slashes as js/evil.js.
C21_Witness ==
    /\ pc = "Done"
    /\ \E k1, k2 \in 1..Len(extracted_resources) :
          /\ extracted_resources[k1].local_path.file = FileName("..", <<1>>, "")
          /\ extracted_resources[k1].local_path.folder = "images"
          /\ "joined" \in DOMAIN extracted_resources[k2].original_url.file
          /\ extracted_resources[k2].local_path.file = FileName("evil", <<>>, ".js")

----------------------------------------------------------------------------
\* The outcome and the archive of one run (checked under Spec).

\* C22: an outcome with success = true is returned only by a run that wrote
\* its archive to the end: the archive file exists at the returned path and
\* the outcome carries the two lists; an outcome with success = false carries
\* an error message and no archive path.
C22_SuccessAfterArchive ==
    result # NoResult =>
        IF result.success
        THEN /\ pc = "Done"
             /\ archive.exists /\ archive.complete
             /\ result.output_path = ZipPath
             /\ result.resources = extracted_resources
             /\ result.failed_resources = failed_resources
             /\ "error" \notin DOMAIN result
        ELSE /\ "error" \in DOMAIN result
             /\ result.error # <<>>
             /\ "output_path" \notin DOMAIN result

\* A successful outcome that carries a resource and a failure.
C22_Witness ==
    /\ result # NoResult
    /\ result.success
    /\ Len(result.resources) >= 1
    /\ Len(result.failed_resources) >= 1
    /\ archive.complete

EntryNames(a) == { a.entries[j] : j \in 1..Len(a.entries) }

\* The entry is a file that a request of its category folder wrote.
WrittenByRequest(e) ==
    \E k \in 1..Len(requests) :
        /\ FolderOf(requests[k].type) = e.folder
        /\ requests[k].outcome # "http_error"
        /\ e.file.base = requests[k].filename.base
        /\ e.file.ext = requests[k].filename.ext

\* C23: an archive written to the end has index.html and the manifest at
\* its root and every other entry under css/, js/, images/ or fonts/, in
\* the folder of the category whose download wrote it; its entry names are
\* the relative paths of the files of the output directory at packaging
\* time plus the manifest, each once.
C23_ArchiveLayout ==
    /\ []((archive.exists /\ archive.complete) =>
             /\ Arcname(IndexHtml) \in EntryNames(archive)
             /\ Arcname(Manifest) \in EntryNames(archive)
             /\ \A e \in EntryNames(archive) \ {Arcname(IndexHtml), Arcname(Manifest)} :
                    e.folder \in CategoryFolders /\ WrittenByRequest(e))
    /\ [][(pc = "Packaging" /\ archive'.exists /\ archive'.complete) =>
             /\ EntryNames(archive') = { Arcname(f) : f \in files } \cup {Arcname(Manifest)}
             /\ Len(archive'.entries) = Cardinality(files) + 1]_vars

\* An archive with index.html, the manifest and files in two folders.
C23_Witness ==
    /\ pc = "Done"
    /\ Len(archive.entries) = 4
    /\ \E e1, e2 \in EntryNames(archive) :
          e1.folder = "css" /\ e2.folder = "images"

----------------------------------------------------------------------------
\* Two calls of extract_website on one WebsiteExtractor.

\* What is remembered of a finished call: the page it fetched, the result of
\* each of its requests, and the entry names of the archive it completed.
CallRecord ==
    [called |-> TRUE,
     doc |-> html_content.doc,
     outcomes |-> [k \in 1..Len(requests) |-> requests[k].outcome],
     complete |-> archive.exists /\ archive.complete,
     names |-> IF archive.exists /\ archive.complete
               THEN { archive.entries[j] : j \in 1..Len(archive.entries) }
               ELSE {}]

\* The caller calls extract_website again, a second or more after the first
\* call began: lines 79-86 name a new output directory and a new archive
\* path, the locals start afresh, and the attributes set by __init__
\* (the two lists, driver, the configuration) are what the first call left.
CallAgain ==
    /\ pc \in {"Done", "Failed"}
    /\ ~earlier.called
    /\ earlier' = CallRecord
    /\ pc' = "Init"
    /\ fetchMode' = "requests"
    /\ dirExists' = FALSE
    /\ files' = {}
    /\ soup' = <<>>
    /\ category' = 1
    /\ elements' = <<>>
    /\ total_resources' = 0
    /\ processed_resources' = 0
    /\ archive' = NoArchive
    /\ lastReport' = NoReport
    /\ result' = NoResult
    /\ cleanupCount' = 0
    /\ raised' = NoError
    /\ absorbed' = {}
    /\ requests' = <<>>
    /\ savedHtml' = <<>>
    /\ html_content' = NoHtml
    /\ UNCHANGED <<use_selenium, include_assets, driver, hasOutputPath,
                   extracted_resources, failed_resources, clock, runs, disk,
                   archives, site, appVars, fileVars>>

NextReuse ==
    \/ Setup
    \/ FetchRequests
    \/ Parse
    \/ DownloadResource
    \/ FinishExtractResources
    \/ SaveHtml
    \/ CreateZipArchive
    \/ CallAgain

InitReuse == InitExtractor /\ NoSafePathCall /\ NoCreateZipCall /\ NoExtractZipCall /\ site = "mixed" /\ ~use_selenium /\ include_assets

SpecReuse == InitReuse /\ [][NextReuse]_vars

\* The elements of the fetched page whose URL urljoin rejects: when assets
\* are included each is visited once and recorded as failed.
RejectedUrls ==
    IF include_assets
    THEN { i \in 1..Len(OriginalDoc) : OriginalDoc[i].attr.t = "bad" }
    ELSE {}

\* C24: a call that fetched the same page as the earlier call on the
\* instance, with the same result of every request, completes an archive
\* with the same set of entry names.
C24_SameEntryNames ==
    (/\ pc = "Done"
     /\ earlier.called
     /\ earlier.complete
     /\ earlier.doc = OriginalDoc
     /\ earlier.outcomes = [k \in 1..Len(requests) |-> requests[k].outcome])
        => EntryNames(archive) = earlier.names

\* C30: the lists of a returned outcome and the counts of its manifest hold
\* the entries of the call that returned it and nothing else, also for the
\* second call on an instance.
C30_ListsOfThisRunOnly ==
    pc = "Done" =>
        /\ Len(result.resources) = Len(OkRequests)
        /\ \A j \in 1..Len(result.resources) :
              result.resources[j] =
                  ExtractedEntry(OkRequests[j].type, OkRequests[j].url, OkRequests[j].path)
        /\ Len(result.failed_resources) = Cardinality(RejectedUrls)
        /\ archive.info.extracted = Len(OkRequests)
        /\ archive.info.failed = Cardinality(RejectedUrls)

----------------------------------------------------------------------------
\* C25: the manifest of a completed archive names the mode that fetched the
\* HTML: rendered mode only if the browser delivered the page, static mode
\* if the static fetch did, the fallback from rendered mode included.
C25_ManifestMode ==
    (archive.exists /\ archive.complete) =>
        archive.info.mode = (IF fetchMode = "selenium" THEN "Selenium" ELSE "HTTP")

----------------------------------------------------------------------------
\* Termination.  The thread that runs extract_website keeps running, and
\* every request and every wait of a step returns or fails within its
\* timeout, so a step that can be taken is taken.
InitLive == InitExtractor /\ NoSafePathCall /\ NoCreateZipCall /\ NoExtractZipCall /\ site = "loops"

SpecLive == InitLive /\ [][Next]_vars /\ WF_vars(Next)

\* C26: every call of extract_website reaches Done or Failed and returns,
\* for every page and every pattern of request failures.
C26_Terminates == <>(pc \in {"Done", "Failed"} /\ result # NoResult /\ cleanupCount = 1)

\* A call that returned after the rendering failed and after an element
\* was requested in two categories, the first request failing.
C26_Witness ==
    /\ pc = "Done"
    /\ result # NoResult
    /\ "render" \in absorbed
    /\ Len(requests) = 2
    /\ requests[1].element = requests[2].element
    /\ requests[1].outcome # "ok"
    /\ requests[2].outcome = "ok"

----------------------------------------------------------------------------
\* C27: the percentages given to the progress callback lie in 0..100 and
\* never decrease in the course of a run.
C27_ProgressMonotone ==
    [][lastReport' # lastReport =>
          /\ lastReport'.pct \in 0..100
          /\ lastReport'.pct >= lastReport.pct]_vars

\* C28: when the download loop is over and resources had been found, the
\* last report is the one of the last resource: processed = total, 75 percent.
C28_LastReportComplete ==
    (/\ pc = "Downloading"
     /\ elements = <<>>
     /\ category > NumCategories
     /\ total_resources >= 1)
        => lastReport = Report(75, <<"processed", total_resources, total_resources>>)

\* C29: the entries of a completed archive under css/, js/, images/ and
\* fonts/ are the local paths of the extracted resources, one entry for one
\* resource: a download that failed left no entry.
C29_OnlyExtractedInArchive ==
    (archive.exists /\ archive.complete) =>
        /\ \A e \in EntryNames(archive) :
              e.folder # "" =>
                 Cardinality({ k \in 1..Len(extracted_resources) :
                                 FileOf(extracted_resources[k].local_path) = e }) = 1
        /\ \A k \in 1..Len(extracted_resources) :
              FileOf(extracted_resources[k].local_path) \in EntryNames(archive)

----------------------------------------------------------------------------
\* C31: with include_assets false nothing is discovered or requested: the
\* two lists stay empty, the document and the saved HTML keep every
\* attribute of the fetched page, and a completed archive holds index.html
\* and the manifest only.
C31_NoAssets ==
    ~include_assets =>
        /\ requests = <<>>
        /\ extracted_resources = <<>> /\ failed_resources = <<>>
        /\ total_resources = 0 /\ processed_resources = 0
        /\ soup \in {<<>>, OriginalDoc}
        /\ savedHtml \in {<<>>, OriginalDoc}
        /\ (archive.exists /\ archive.complete) =>
               /\ EntryNames(archive) = {Arcname(IndexHtml), Arcname(Manifest)}
               /\ Len(archive.entries) = 2
        /\ pc = "Done" =>
               result.resources = <<>> /\ result.failed_resources = <<>>

\* A successful run without assets on a page that has two resources.
C31_Witness ==
    /\ ~include_assets
    /\ pc = "Done"
    /\ Len(savedHtml) = 2
    /\ \A i \in 1..2 : savedHtml[i].attr.t = "url"
    /\ archive.complete

----------------------------------------------------------------------------
\* The task registry of app.py.  The POST handler creates a task and starts
\* its thread run_extraction_task; get_progress and delete_task are served by
\* other threads at the same time.  The registry is touched under task_lock
\* only; the attributes of a task are read and written without a lock, one
\* attribute at a time.

EmptyStr == <<>>
None == "None"

\* ExtractionTask.__init__; current_step and the two dates are left out.
ExtractionTask(url) ==
    [url |-> url, status |-> "pending", progress |-> 0,
     output_path |-> EmptyStr, download_url |-> EmptyStr,
     error_message |-> EmptyStr, extracted_resources |-> <<>>]

Write(field, value) == [field |-> field, value |-> value]

\* Faulty variant: the status is assigned first.
update_progressStatusFirst(progress, status) ==
    (IF status # None THEN <<Write("status", status)>> ELSE <<>>)
        \o <<Write("progress", progress)>>

\* update_progress: the attribute writes it makes, in order.
update_progress(progress, status) ==
    <<Write("progress", progress)>>
        \o (IF status # None THEN <<Write("status", status)>> ELSE <<>>)

\* f'/download/{os.path.basename(output_path)}'
DownloadUrl(output_path) == <<"/download">> \o output_path

\* Faulty variant: the task is marked completed before the result is stored.
SuccessWritesStatusFirst(res) ==
    update_progress(100, "completed")
        \o <<Write("output_path", res.output_path),
             Write("download_url", DownloadUrl(res.output_path)),
             Write("extracted_resources", res.resources)>>

\* run_extraction_task, lines 279-282.
SuccessWrites(res) ==
    <<Write("output_path", res.output_path),
      Write("download_url", DownloadUrl(res.output_path)),
      Write("extracted_resources", res.resources)>>
        \o update_progress(100, "completed")

\* run_extraction_task, lines 284-285.
FailureWrites(res) ==
    <<Write("error_message", res.error)>> \o update_progress(0, "failed")

\* run_extraction_task, lines 287-290.
ExceptWrites(e) ==
    <<Write("error_message", Str(e))>> \o update_progress(0, "failed")

\* simulate_extraction, lines 318-320.
SimulateWrites(output_path) ==
    <<Write("output_path", output_path),
      Write("download_url", DownloadUrl(output_path))>>
        \o update_progress(100, "completed")

\* The percentages extract_website reports before the archive is written
\* (requests route: lines 89, 192, 201, 103, 245, 109).
ExtractorPercents == <<5, 10, 25, 30, 35, 80>>

\* The percentages of the steps of simulate_extraction (lines 294-302).
SimulatePercents == <<10, 25, 40, 60, 80, 95, 100>>

\* The failures extract_website returns as a failure dict.
ExtractorErrors == {OSError, HttpRequestFailed(OSError), EmptyContent}

\* os.path.join(OUTPUT_DIR, f'webtwin_{task.task_id[:8]}.zip')
SimulatedZip(t) == <<"output", "webtwin", t, ".zip">>

\* The thread of a task just started by the POST handler.
StartedThread == [NoThread EXCEPT !.pc = "lookup"]

\* The control of the thread is at `at` and no attribute write is pending.
At(t, at) == thread[t].pc = at /\ thread[t].todo = <<>>

taskRest == <<pc, use_selenium, include_assets, fetchMode, driver, hasOutputPath,
              dirExists, files, soup, category, elements, total_resources,
              processed_resources, extracted_resources, failed_resources, archive,
              lastReport, result, cleanupCount, raised, absorbed, requests,
              savedHtml, html_content, site, earlier, runs, disk, fileVars>>

\* POST /extract, lines 135-149: a task with a fresh uuid is stored and its
\* thread is started.
PostExtract(t) ==
    /\ thread[t].pc = "unborn"
    /\ t = Cardinality({ u \in TaskIds : thread[u].pc # "unborn" }) + 1
    /\ \E domain \in Domains :
         task' = [task EXCEPT ![t] = ExtractionTask(domain)]
    /\ tasks' = tasks \cup {t}
    /\ thread' = [thread EXCEPT ![t] = StartedThread]
    /\ UNCHANGED <<poll, clock, archives>>
    /\ UNCHANGED taskRest

\* run_extraction_task, lines 251-255: the task is looked up; the thread ends
\* when it is gone.
RunLookup(t) ==
    /\ At(t, "lookup")
    /\ thread' = [thread EXCEPT ![t].pc = IF t \in tasks THEN "begin" ELSE "ended"]
    /\ UNCHANGED <<tasks, task, poll, clock, archives>>
    /\ UNCHANGED taskRest

\* Line 259: task.update_progress(0, ..., TaskStatus.RUNNING).
RunBegin(t) ==
    /\ At(t, "begin")
    /\ thread' = [thread EXCEPT ![t].pc = "import",
                                ![t].todo = update_progress(0, "running")]
    /\ UNCHANGED <<tasks, task, poll, clock, archives>>
    /\ UNCHANGED taskRest

\* Lines 262-270: the extraction engine is imported; on ImportError the
\* simulated extraction runs instead.
RunImport(t) ==
    /\ At(t, "import")
    /\ \E to \in {"extractor", "simulate"} :
         thread' = [thread EXCEPT ![t].pc = to, ![t].k = 0]
    /\ UNCHANGED <<tasks, task, poll, clock, archives>>
    /\ UNCHANGED taskRest

\* extract_website reports its progress through the callback of line 275;
\* with the first report the output directory is named after the time.
ExtractorReports(t) ==
    /\ At(t, "extractor")
    /\ thread[t].k < Len(ExtractorPercents)
    /\ thread' = [thread EXCEPT
                    ![t].k = @ + 1,
                    ![t].todo = update_progress(ExtractorPercents[thread[t].k + 1], None),
                    ![t].output_dir = IF thread[t].k = 0
                                      THEN OutputDir(task[t].url, clock) ELSE @]
    /\ UNCHANGED <<tasks, task, poll, clock, archives>>
    /\ UNCHANGED taskRest

\* extract_website ends in its except clause and returns a failure dict.
ExtractorFails(t) ==
    /\ At(t, "extractor")
    /\ thread[t].k \in 1..(Len(ExtractorPercents) - 1)
    /\ \E e \in ExtractorErrors :
         thread' = [thread EXCEPT ![t].pc = "returned",
                                  ![t].result = FailureResult(e)]
    /\ UNCHANGED <<tasks, task, poll, clock, archives>>
    /\ UNCHANGED taskRest

\* extract_website writes the archive, reports 100 and returns the success
\* dict (extractor.py, lines 115-129).
ExtractorSucceeds(t) ==
    /\ At(t, "extractor")
    /\ thread[t].k = Len(ExtractorPercents)
    /\ LET zip_path == ZipPathOf(thread[t].output_dir)
       IN  /\ archives' = { a \in archives : a.path # zip_path }
                            \cup {[path |-> zip_path, writer |-> t, holds |-> {t}]}
           /\ thread' = [thread EXCEPT
                           ![t].pc = "returned",
                           ![t].todo = update_progress(100, None),
                           ![t].result = SuccessResult(zip_path, <<>>, <<>>)]
    /\ UNCHANGED <<tasks, task, poll, clock>>
    /\ UNCHANGED taskRest

\* run_extraction_task, lines 278-285: the result is stored in the task.
RunResult(t) ==
    /\ At(t, "returned")
    /\ thread' = [thread EXCEPT
                    ![t].pc = "ended",
                    ![t].todo = IF thread[t].result.success
                                THEN SuccessWrites(thread[t].result)
                                ELSE FailureWrites(thread[t].result)]
    /\ UNCHANGED <<tasks, task, poll, clock, archives>>
    /\ UNCHANGED taskRest

\* simulate_extraction, lines 304-306: one step of the loop.
SimulateReports(t) ==
    /\ At(t, "simulate")
    /\ thread[t].k < Len(SimulatePercents)
    /\ thread' = [thread EXCEPT
                    ![t].k = @ + 1,
                    ![t].todo = update_progress(SimulatePercents[thread[t].k + 1], None)]
    /\ UNCHANGED <<tasks, task, poll, clock, archives>>
    /\ UNCHANGED taskRest

\* simulate_extraction, lines 309-320: the archive is written and the task is
\* completed; an error of the file system is caught at line 287.
SimulateZips(t) ==
    /\ At(t, "simulate")
    /\ thread[t].k = Len(SimulatePercents)
    /\ \E zip \in {"ok", "oserror"} :
         IF zip = "ok"
         THEN /\ archives' = { a \in archives : a.path # SimulatedZip(t) }
                               \cup {[path |-> SimulatedZip(t), writer |-> t,
                                      holds |-> {t}]}
              /\ thread' = [thread EXCEPT ![t].pc = "ended",
                                          ![t].todo = SimulateWrites(SimulatedZip(t))]
         ELSE /\ archives' = archives
              /\ thread' = [thread EXCEPT ![t].pc = "ended",
                                          ![t].todo = ExceptWrites(OSError)]
    /\ UNCHANGED <<tasks, task, poll, clock>>
    /\ UNCHANGED taskRest

\* One pending attribute write of the thread reaches the task object.
WriteAttribute(t) ==
    /\ thread[t].todo # <<>>
    /\ LET w == Head(thread[t].todo)
       IN  task' = [task EXCEPT ![t] = [@ EXCEPT ![w.field] = w.value]]
    /\ thread' = [thread EXCEPT ![t].todo = Tail(@)]
    /\ UNCHANGED <<tasks, poll, clock, archives>>
    /\ UNCHANGED taskRest

\* The steps of the thread of task t.
Thread(t) ==
    \/ RunLookup(t)
    \/ RunBegin(t)
    \/ RunImport(t)
    \/ ExtractorReports(t)
    \/ ExtractorFails(t)
    \/ ExtractorSucceeds(t)
    \/ RunResult(t)
    \/ SimulateReports(t)
    \/ SimulateZips(t)
    \/ WriteAttribute(t)

\* The keys of to_dict by which a client learns that the result is there, in
\* the order in which the dict display reads them (lines 97 and 103).
PollFields == <<"status", "download_url">>

\* get_progress, lines 167-168: the task is fetched under the lock.
GetProgress(t) ==
    /\ poll.at = 0
    /\ t \in tasks
    /\ poll' = [at |-> 1, id |-> t, dict |-> <<>>]
    /\ UNCHANGED <<tasks, task, thread, clock, archives>>
    /\ UNCHANGED taskRest

\* to_dict: the next attribute is read into the dict; after the last one the
\* dict is the response.
ToDict ==
    /\ poll.at \in 1..Len(PollFields)
    /\ LET key == PollFields[poll.at]
       IN  poll' = [poll EXCEPT
                      !.dict = @ @@ (key :> task[poll.id][key]),
                      !.at = IF poll.at = Len(PollFields) THEN 0 ELSE @ + 1]
    /\ UNCHANGED <<tasks, task, thread, clock, archives>>
    /\ UNCHANGED taskRest

\* delete_task, lines 235-245, under the lock: the file at task.output_path
\* is removed when the path is set, and the task leaves the registry.
DeleteTask(t) ==
    /\ t \in tasks
    /\ archives' = IF task[t].output_path # EmptyStr
                   THEN { a \in archives : a.path # task[t].output_path }
                   ELSE archives
    /\ tasks' = tasks \ {t}
    /\ UNCHANGED <<task, thread, poll, clock>>
    /\ UNCHANGED taskRest

\* The tasks are created within one second (the clock stands still).
NextTasks ==
    \/ \E t \in TaskIds : PostExtract(t)
    \/ \E t \in TaskIds : Thread(t)
    \/ \E t \in TaskIds : GetProgress(t)
    \/ ToDict
    \/ \E t \in TaskIds : DeleteTask(t)

InitTasks == Init /\ ~use_selenium /\ include_assets

SpecTasks == InitTasks /\ [][NextTasks]_vars

\* The registry without its readers.
NextThreads ==
    \/ \E t \in TaskIds : PostExtract(t)
    \/ \E t \in TaskIds : Thread(t)
    \/ \E t \in TaskIds : DeleteTask(t)

\* Every started thread is scheduled again and again: the extraction threads
\* are ordinary Python threads, none of them waits for another.
SpecTasksLive ==
    InitTasks /\ [][NextThreads]_vars /\ \A t \in TaskIds : WF_vars(Thread(t))

TerminalStatus == {"completed", "failed"}

StatusMoves ==
    {<<"none", "pending">>, <<"pending", "running">>,
     <<"running", "completed">>, <<"running", "failed">>}

\* C33: the status of a task only moves pending -> running -> completed or
\* failed; a completed or failed task is never written again; a failed task
\* has progress 0 and an error message, a completed one has progress 100;
\* and every task that is running is completed or failed in the end.
C33_TaskLifecycle ==
    /\ [](\A t \in TaskIds :
            /\ task[t].status = "failed" =>
                  task[t].progress = 0 /\ task[t].error_message # EmptyStr
            /\ task[t].status = "completed" => task[t].progress = 100)
    /\ [][\A t \in TaskIds :
            /\ task'[t].status # task[t].status =>
                  <<task[t].status, task'[t].status>> \in StatusMoves
            /\ task[t].status \in TerminalStatus => task'[t] = task[t]]_vars
    /\ \A t \in TaskIds :
          (task[t].status = "running") ~> (task[t].status \in TerminalStatus)

\* A task failed by the empty page of its site, and nothing left to write.
C33_Witness ==
    \E t \in TaskIds :
        /\ task[t].status = "failed"
        /\ task[t].error_message = ErrNoContent
        /\ thread[t].pc = "ended" /\ thread[t].todo = <<>>

\* C34: whenever a task is completed its output_path is the archive its run
\* returned and its download_url names that archive, and a dict built by
\* to_dict that says completed carries that download_url.
C34_CompletedHasResult ==
    /\ \A t \in TaskIds :
          task[t].status = "completed" =>
              /\ thread[t].pc = "ended"
              /\ task[t].output_path # EmptyStr
              /\ task[t].output_path \in
                     {SimulatedZip(t), ZipPathOf(thread[t].output_dir)}
              /\ task[t].download_url = DownloadUrl(task[t].output_path)
    /\ ("download_url" \in DOMAIN poll.dict /\ poll.dict.status = "completed") =>
          /\ poll.dict.download_url # EmptyStr
          /\ poll.dict.download_url = task[poll.id].download_url

\* A finished response that says completed and carries the archive of the run.
C34_Witness ==
    /\ poll.at = 0
    /\ DOMAIN poll.dict = {"status", "download_url"}
    /\ poll.dict.status = "completed"
    /\ poll.dict.download_url = DownloadUrl(ZipPathOf(thread[poll.id].output_dir))

\* C35: once delete_task has succeeded for a task, no archive written by
\* that task is on disk.
C35_DeletedLeavesNothing ==
    \A t \in TaskIds :
        (thread[t].pc # "unborn" /\ t \notin tasks) =>
            \A a \in archives : a.writer # t

----------------------------------------------------------------------------
\* file_handler.py.  A string is the sequence of its characters; "SOH" is
\* the control character of code 1.

Slash == <<"/">>
StartsWith(s, prefix) == Len(prefix) <= Len(s) /\ SubSeq(s, 1, Len(prefix)) = prefix
EndsWith(s, suffix) ==
    Len(suffix) <= Len(s) /\ SubSeq(s, Len(s) - Len(suffix) + 1, Len(s)) = suffix
\* `sub in s`
Contains(s, sub) ==
    \E i \in 0..(Len(s) - Len(sub)) : SubSeq(s, i + 1, i + Len(sub)) = sub

\* s.lstrip(c)
RECURSIVE lstrip(_, _)
lstrip(s, c) == IF s # <<>> /\ Head(s) = c THEN lstrip(Tail(s), c) ELSE s

\* s.split(sep) for a separator of one character.
RECURSIVE split(_, _)
split(s, sep) ==
    IF \A i \in 1..Len(s) : s[i] # sep
    THEN <<s>>
    ELSE LET i == CHOOSE i \in 1..Len(s) :
                     s[i] = sep /\ \A j \in 1..(i - 1) : s[j] # sep
         IN  <<SubSeq(s, 1, i - 1)>> \o split(SubSeq(s, i + 1, Len(s)), sep)

\* sep.join(parts)
RECURSIVE JoinSep(_, _)
JoinSep(parts, sep) ==
    IF parts = <<>> THEN <<>>
    ELSE IF Len(parts) = 1 THEN parts[1]
    ELSE parts[1] \o sep \o JoinSep(Tail(parts), sep)

\* The loop of posixpath.normpath over the components of the path.
RECURSIVE NormComps(_, _, _)
NormComps(comps, new_comps, initial_slashes) ==
    IF comps = <<>> THEN new_comps
    ELSE LET comp == Head(comps)
             rest == Tail(comps)
         IN  IF comp \in {<<>>, <<".">>}
             THEN NormComps(rest, new_comps, initial_slashes)
             ELSE IF \/ comp # <<".", ".">>
                     \/ (initial_slashes = 0 /\ new_comps = <<>>)
                     \/ (new_comps # <<>> /\ new_comps[Len(new_comps)] = <<".", ".">>)
             THEN NormComps(rest, Append(new_comps, comp), initial_slashes)
             ELSE IF new_comps # <<>>
             THEN NormComps(rest, SubSeq(new_comps, 1, Len(new_comps) - 1),
                            initial_slashes)
             ELSE NormComps(rest, new_comps, initial_slashes)

\* os.path.normpath (POSIX).
normpath(path) ==
    IF path = <<>> THEN <<".">>
    ELSE LET initial_slashes ==
                 IF ~StartsWith(path, Slash) THEN 0
                 ELSE IF StartsWith(path, Slash \o Slash)
                         /\ ~StartsWith(path, Slash \o Slash \o Slash)
                 THEN 2 ELSE 1
             comps == NormComps(split(path, "/"), <<>>, initial_slashes)
             out == (IF initial_slashes = 2 THEN Slash \o Slash
                     ELSE IF initial_slashes = 1 THEN Slash ELSE <<>>)
                       \o JoinSep(comps, Slash)
         IN  IF out = <<>> THEN <<".">> ELSE out

\* os.path.isabs
isabs(path) == StartsWith(path, Slash)

\* os.path.join(path, *parts)
RECURSIVE join(_, _)
join(path, parts) ==
    IF parts = <<>> THEN path
    ELSE LET b == Head(parts)
         IN  join(IF StartsWith(b, Slash) THEN b
                  ELSE IF path = <<>> \/ EndsWith(path, Slash) THEN path \o b
                  ELSE path \o Slash \o b,
                  Tail(parts))

\* The working directory of the process.
Cwd == <<"/", "w">>

\* os.path.abspath
abspath(path) ==
    IF isabs(path) THEN normpath(path) ELSE normpath(join(Cwd, <<path>>))

\* os.path.basename
basenameOf(path) == LET comps == split(path, "/") IN comps[Len(comps)]

\* os.path.splitext of a name without separators: the extension starts at
\* the last dot, unless only dots come before it.
splitext(p) ==
    LET dots == { i \in 1..Len(p) : p[i] = "." }
    IN  IF dots = {} THEN <<p, <<>>>>
        ELSE LET dotIndex == CHOOSE i \in dots : \A j \in dots : j <= i
             IN  IF \E j \in 1..(dotIndex - 1) : p[j] # "."
                 THEN <<SubSeq(p, 1, dotIndex - 1), SubSeq(p, dotIndex, Len(p))>>
                 ELSE <<p, <<>>>>

Lowercase ==
    <<"a", "b", "c", "d", "e", "f", "g", "h", "i", "j", "k", "l", "m", "n", "o",
      "p", "q", "r", "s", "t", "u", "v", "w", "x", "y", "z">>
Uppercase ==
    <<"A", "B", "C", "D", "E", "F", "G", "H", "I", "J", "K", "L", "M", "N", "O",
      "P", "Q", "R", "S", "T", "U", "V", "W", "X", "Y", "Z">>

\* str.upper and str.lower
upper(s) ==
    [i \in 1..Len(s) |->
        IF \E k \in 1..Len(Lowercase) : Lowercase[k] = s[i]
        THEN Uppercase[CHOOSE k \in 1..Len(Lowercase) : Lowercase[k] = s[i]]
        ELSE s[i]]
lower(s) ==
    [i \in 1..Len(s) |->
        IF \E k \in 1..Len(Uppercase) : Uppercase[k] = s[i]
        THEN Lowercase[CHOOSE k \in 1..Len(Uppercase) : Uppercase[k] = s[i]]
        ELSE s[i]]

\* sanitize_filename: the characters of illegal_chars and the control
\* characters (ord(char) < 32).
IllegalChars == {"<", ">", ":", "\"", "/", "\\", "|", "?", "*"}
ControlChars == {"SOH"}

reserved_names ==
    {<<"C", "O", "N">>, <<"P", "R", "N">>, <<"A", "U", "X">>, <<"N", "U", "L">>}
        \cup { <<"C", "O", "M", d>> : d \in {"1", "2", "3", "4", "5", "6", "7", "8", "9"} }
        \cup { <<"L", "P", "T", d>> : d \in {"1", "2", "3", "4", "5", "6", "7", "8", "9"} }

unnamed_file == <<"u", "n", "n", "a", "m", "e", "d", "_", "f", "i", "l", "e">>

\* FileHandler.sanitize_filename
sanitize_filename(filename) ==
    LET replaced == [i \in 1..Len(filename) |->
                        IF filename[i] \in IllegalChars THEN "_" ELSE filename[i]]
        printable == SelectSeq(replaced, LAMBDA char : char \notin ControlChars)
        limited == IF Len(printable) > 255
                   THEN LET name == splitext(printable)[1]
                            ext == splitext(printable)[2]
                        IN  (IF 255 - Len(ext) >= 0
                             THEN SubSeq(name, 1, 255 - Len(ext))
                             ELSE SubSeq(name, 1, Len(name) + 255 - Len(ext))) \o ext
                   ELSE printable
        name_without_ext == upper(splitext(limited)[1])
        renamed == IF name_without_ext \in reserved_names
                   THEN <<"_">> \o limited ELSE limited
    IN  IF renamed = <<>> THEN unnamed_file ELSE renamed

\* The loop of get_safe_path over the parts of the path.
RECURSIVE PathParts(_)
PathParts(parts) ==
    IF parts = <<>> THEN <<>>
    ELSE (IF Head(parts) \notin {<<>>, <<".">>, <<".", ".">>}
          THEN <<sanitize_filename(Head(parts))>> ELSE <<>>)
             \o PathParts(Tail(parts))

\* FileHandler.get_safe_path
get_safe_path(base, relative) ==
    LET normalized == normpath(lstrip(relative, "/"))
        path_parts == PathParts(split(normalized, "/"))
        joined == abspath(join(base, path_parts))
        base_abs == abspath(base)
    IN  IF StartsWith(joined, base_abs)
        THEN joined
        ELSE join(base_abs, <<sanitize_filename(basenameOf(normalized))>>)

\* The pieces the relative paths of the model are made of.
PathTokens ==
    {Slash, <<".", ".">>, <<".">>, <<"a">>, <<"b", "2">>, <<".", "SOH", ".">>,
     <<"x", "?">>, <<"c", "o", "n">>, <<"SOH">>}

RECURSIVE Concat(_)
Concat(ts) == IF ts = <<>> THEN <<>> ELSE Head(ts) \o Concat(Tail(ts))

RelativePaths ==
    { Concat(ts) : ts \in UNION { [1..n -> PathTokens] : n \in 0..MaxTokens } }

\* '/w/b' and 'b' (relative to the working directory).
BasePaths == {<<"/", "w", "/", "b">>, <<"b">>}

safePathRest == <<pc, use_selenium, include_assets, fetchMode, driver, hasOutputPath,
                  dirExists, files, soup, category, elements, total_resources,
                  processed_resources, extracted_resources, failed_resources,
                  archive, lastReport, result, cleanupCount, raised, absorbed,
                  requests, savedHtml, html_content, site, earlier, clock, runs,
                  disk, archives, appVars, createZipVars, extractZipVars>>

\* One call of get_safe_path.
GetSafePath ==
    /\ safe_path = NoCall
    /\ safe_path' = [called |-> TRUE, path |-> get_safe_path(base_path, relative_path)]
    /\ UNCHANGED <<base_path, relative_path>>
    /\ UNCHANGED safePathRest

InitSafePath ==
    /\ InitExtractor /\ site = "mixed" /\ ~use_selenium /\ include_assets
    /\ NoCreateZipCall /\ NoExtractZipCall
    /\ base_path \in BasePaths
    /\ relative_path \in RelativePaths
    /\ safe_path = NoCall

SpecSafePath == InitSafePath /\ [][GetSafePath]_vars

\* The path is the directory `base` or lies below it.
Inside(path, base) ==
    LET p == abspath(path)
        b == abspath(base)
    IN  p = b \/ StartsWith(p, IF b = Slash THEN b ELSE b \o Slash)

\* C36: the path get_safe_path returns lies inside base_path, whatever the
\* relative path is.
C36_SafePathInside ==
    safe_path.called => Inside(safe_path.path, base_path)

----------------------------------------------------------------------------
\* ZipPackager.create_zip

\* include_patterns / exclude_patterns: None, or a list of patterns.
Absent == [given |-> FALSE, list |-> <<>>]
Given(list) == [given |-> TRUE, list |-> list]
\* `if patterns:` is false for None and for the empty list.
Truthy(ps) == ps.given /\ ps.list # <<>>

\* The regular expressions of the model: r'\.css$', r'sub/', r'src' and
\* '*.css', which re rejects ("nothing to repeat").
EndsIn(text) == [kind |-> "ends", text |-> text]
Has(text) == [kind |-> "has", text |-> text]
Invalid == [kind |-> "invalid", text |-> <<"*", ".", "c", "s", "s">>]
Patterns ==
    {EndsIn(<<".", "c", "s", "s">>), Has(<<"s", "u", "b", "/">>),
     Has(<<"s", "r", "c">>), Invalid}
PatternLists == {Absent, Given(<<>>)} \cup { Given(<<p>>) : p \in Patterns }

\* re.search(pattern, string, re.IGNORECASE) for a pattern re accepts.
re_search(pattern, string) ==
    IF pattern.kind = "ends"
    THEN EndsWith(lower(string), lower(pattern.text))
    ELSE Contains(lower(string), lower(pattern.text))

\* `for pattern in patterns: if re.search(...)`: "hit" at the first pattern
\* that matches, "error" at a pattern re rejects, "miss" after the last one.
RECURSIVE SearchAny(_, _)
SearchAny(ps, file_path) ==
    IF ps = <<>> THEN "miss"
    ELSE IF Head(ps).kind = "invalid" THEN "error"
    ELSE IF re_search(Head(ps), file_path) THEN "hit"
    ELSE SearchAny(Tail(ps), file_path)

\* ZipPackager._should_include_file: "include", "skip", or "raise" (re.error).
should_include_file(file_path, include_patterns, exclude_patterns) ==
    LET excluded == IF Truthy(exclude_patterns)
                    THEN SearchAny(exclude_patterns.list, file_path) ELSE "miss"
        included == IF Truthy(include_patterns)
                    THEN SearchAny(include_patterns.list, file_path) ELSE "hit"
    IN  IF excluded = "error" THEN "raise"
        ELSE IF excluded = "hit" THEN "skip"
        ELSE IF included = "error" THEN "raise"
        ELSE IF included = "hit" THEN "include"
        ELSE "skip"

\* The source directory and the files below it: a.css, sub/b.js, B.CSS.
source_directory == <<"s", "r", "c">>
SourceFiles ==
    {<<"a", ".", "c", "s", "s">>, <<"s", "u", "b", "/", "b", ".", "j", "s">>,
     <<"B", ".", "C", "S", "S">>}
\* The orders in which os.walk may find up to MaxFiles of them.
Walks ==
    { w \in UNION { [1..n -> SourceFiles] : n \in 0..MaxFiles } :
        \A i, j \in 1..Len(w) : i # j => w[i] # w[j] }

ReError == Exc("re.error", <<"nothing to repeat">>)

\* The messages appended to stats['errors'] (lines 262 and 281).
file_error(file_path) == [of |-> "file", file |-> file_path]
zip_path_error(e) == [of |-> "archive", file |-> Str(e)]

createZipRest == <<pc, use_selenium, include_assets, fetchMode, driver, hasOutputPath,
                   dirExists, files, soup, category, elements, total_resources,
                   processed_resources, extracted_resources, failed_resources,
                   archive, lastReport, result, cleanupCount, raised, absorbed,
                   requests, savedHtml, html_content, site, earlier, clock, runs,
                   disk, archives, appVars, safePathVars, extractZipVars>>

\* Lines 223-234: the stats are set up and the archive is opened for
\* writing; the failure to open it is caught at line 280.
CreateZipOpen ==
    /\ stats = NoCall /\ zip_result = NoCall
    /\ \E open \in {"ok", "oserror"} :
         IF open = "ok"
         THEN /\ stats' = [total_files |-> 0, errors |-> <<>>]
              /\ zip_result' = zip_result
         ELSE /\ stats' = [total_files |-> 0, errors |-> <<zip_path_error(OSError)>>]
              /\ zip_result' = [called |-> TRUE, success |-> FALSE, raised |-> OSError]
    /\ UNCHANGED <<source_files, patterns, walked, zip_entries>>
    /\ UNCHANGED createZipRest

\* Lines 237-264: one file of the walk.  A pattern that re rejects ends the
\* call through the outer except clause; a failure while the file is added
\* is recorded and the loop goes on.
AddFile ==
    /\ stats # NoCall /\ zip_result = NoCall
    /\ walked < Len(source_files)
    /\ walked' = walked + 1
    /\ LET file == source_files[walked + 1]
           file_path == join(source_directory, <<file>>)
           decision == should_include_file(file_path, patterns.include,
                                           patterns.exclude)
       IN  IF decision = "raise"
           THEN /\ zip_result' = [called |-> TRUE, success |-> FALSE,
                                  raised |-> ReError]
                /\ stats' = [stats EXCEPT
                               !.errors = Append(@, zip_path_error(ReError))]
                /\ zip_entries' = zip_entries
           ELSE IF decision = "skip"
           THEN UNCHANGED <<zip_result, stats, zip_entries>>
           ELSE /\ zip_result' = zip_result
                /\ \E add \in {"ok", "write raises", "getsize raises"} :
                     /\ zip_entries' = IF add = "write raises" THEN zip_entries
                                       ELSE Append(zip_entries, file)
                     /\ stats' = IF add = "ok"
                                 THEN [stats EXCEPT !.total_files = @ + 1]
                                 ELSE [stats EXCEPT
                                         !.errors = Append(@, file_error(file_path))]
    /\ UNCHANGED <<source_files, patterns>>
    /\ UNCHANGED createZipRest

\* Lines 266-278: the archive is closed and the call returns success.
CreateZipReturns ==
    /\ stats # NoCall /\ zip_result = NoCall
    /\ walked = Len(source_files)
    /\ zip_result' = [called |-> TRUE, success |-> TRUE, raised |-> NoError]
    /\ UNCHANGED <<source_files, patterns, walked, zip_entries, stats>>
    /\ UNCHANGED createZipRest

NextCreateZip == CreateZipOpen \/ AddFile \/ CreateZipReturns

InitCreateZip ==
    /\ InitExtractor /\ site = "mixed" /\ ~use_selenium /\ include_assets
    /\ NoSafePathCall /\ NoExtractZipCall
    /\ source_files \in Walks
    /\ patterns \in [include : PatternLists, exclude : PatternLists]
    /\ walked = 0
    /\ zip_entries = <<>>
    /\ stats = NoCall
    /\ zip_result = NoCall

SpecCreateZip == InitCreateZip /\ [][NextCreateZip]_vars

Range(seq) == { seq[i] : i \in 1..Len(seq) }

\* The file matches no exclude pattern and, when include patterns are
\* given, at least one of them.
Selected(file) ==
    LET file_path == join(source_directory, <<file>>)
    IN  /\ \A p \in Range(patterns.exclude.list) :
              p.kind # "invalid" /\ ~re_search(p, file_path)
        /\ Truthy(patterns.include) =>
              \E p \in Range(patterns.include.list) :
                  p.kind # "invalid" /\ re_search(p, file_path)

\* The files whose failure is recorded in stats.errors.
Errored ==
    { f \in Range(source_files) :
        \E e \in Range(stats.errors) :
            e.of = "file" /\ e.file = join(source_directory, <<f>>) }

\* C37: create_zip returns failure only when the archive cannot be opened;
\* when it returns success, total_files is the number of entries written and
\* the entries are the selected files of the source directory, except those
\* whose failure was recorded in stats.errors.
C37_CreateZipAbsorbs ==
    zip_result.called =>
        /\ ~zip_result.success => zip_result.raised = OSError
        /\ zip_result.success =>
              /\ stats.total_files = Len(zip_entries)
              /\ Range(zip_entries) =
                    { f \in Range(source_files) : Selected(f) } \ Errored

----------------------------------------------------------------------------
\* ZipPackager.extract_zip

\* ['..', '~', '//', '\\\\']
dangerous_patterns == <<<<".", ".">>, <<"~">>, <<"/", "/">>, <<"\\", "\\">>>>

\* Faulty variant: only absolute names are rejected.
is_safe_pathAbsOnly(path) == ~isabs(normpath(path))

\* ZipPackager._is_safe_path
is_safe_path(path) ==
    LET normalized == normpath(path)
    IN  /\ \A i \in 1..Len(dangerous_patterns) :
              ~Contains(normalized, dangerous_patterns[i])
        /\ ~isabs(normalized)

\* The member names of the model: a, d/b, a/../b, ../e, d/../../e, /abs, ~x,
\* a..b, d/.
MemberNames ==
    {<<"a">>, <<"d", "/", "b">>, <<"a", "/", ".", ".", "/", "b">>,
     <<".", ".", "/", "e">>, <<"d", "/", ".", ".", "/", ".", ".", "/", "e">>,
     <<"/", "a", "b", "s">>, <<"~", "x">>, <<"a", ".", ".", "b">>, <<"d", "/">>}

\* The archives of the model: up to MaxMembers members.
Infolists == UNION { [1..n -> MemberNames] : n \in 0..MaxMembers }

\* zipf.extract(member, extract_to): the place below extract_to where
\* zipfile writes the member (empty, '.' and '..' components are dropped).
ExtractTarget(filename) ==
    JoinSep(SelectSeq(split(filename, "/"),
                      LAMBDA x : x \notin {<<>>, <<".">>, <<".", ".">>}),
            Slash)

extractZipRest == <<pc, use_selenium, include_assets, fetchMode, driver, hasOutputPath,
                    dirExists, files, soup, category, elements, total_resources,
                    processed_resources, extracted_resources, failed_resources,
                    archive, lastReport, result, cleanupCount, raised, absorbed,
                    requests, savedHtml, html_content, site, earlier, clock, runs,
                    disk, archives, appVars, safePathVars, createZipVars>>

\* Lines 291-295 and 314-316: the archive cannot be read, or testzip names a
\* damaged member; the call returns (False, []) before any member is
\* extracted.
ExtractZipRejects ==
    /\ unzip_result = NoCall
    /\ visited = 0
    /\ unzip_result' = [called |-> TRUE, success |-> FALSE, files |-> <<>>]
    /\ UNCHANGED <<members, visited, extracted_files, extract_to>>
    /\ UNCHANGED extractZipRest

\* Lines 298-309: one member of the loop; an error of zipf.extract is
\* logged and the loop goes on.
ExtractMember ==
    /\ unzip_result = NoCall
    /\ visited < Len(members)
    /\ visited' = visited + 1
    /\ LET filename == members[visited + 1]
       IN  IF is_safe_path(filename)
           THEN \E extract \in {"ok", "raises"} :
                  IF extract = "ok"
                  THEN /\ extract_to' = extract_to \cup
                              {[member |-> visited + 1,
                                path |-> ExtractTarget(filename)]}
                       /\ extracted_files' = Append(extracted_files, filename)
                  ELSE UNCHANGED <<extract_to, extracted_files>>
           ELSE UNCHANGED <<extract_to, extracted_files>>
    /\ UNCHANGED <<members, unzip_result>>
    /\ UNCHANGED extractZipRest

\* Lines 311-312.
ExtractZipReturns ==
    /\ unzip_result = NoCall
    /\ visited = Len(members)
    /\ unzip_result' = [called |-> TRUE, success |-> TRUE, files |-> extracted_files]
    /\ UNCHANGED <<members, visited, extracted_files, extract_to>>
    /\ UNCHANGED extractZipRest

NextExtractZip == ExtractZipRejects \/ ExtractMember \/ ExtractZipReturns

InitExtractZip ==
    /\ InitExtractor /\ site = "mixed" /\ ~use_selenium /\ include_assets
    /\ NoSafePathCall /\ NoCreateZipCall
    /\ members \in Infolists
    /\ visited = 0
    /\ extracted_files = <<>>
    /\ extract_to = {}
    /\ unzip_result = NoCall

SpecExtractZip == InitExtractZip /\ [][NextExtractZip]_vars

\* The members that were written below extract_to.
Extracted == { e.member : e \in extract_to }

\* The names of the extracted members among the first n, in archive order.
RECURSIVE NamesOfExtracted(_)
NamesOfExtracted(n) ==
    IF n = 0 THEN <<>>
    ELSE NamesOfExtracted(n - 1)
           \o (IF n \in Extracted THEN <<members[n]>> ELSE <<>>)

\* The name is absolute or contains '..' or '~'.
UnsafeName(filename) ==
    \/ isabs(filename)
    \/ Contains(filename, <<".", ".">>)
    \/ Contains(filename, <<"~">>)

\* What the list and the result say about the members visited so far.
ListIsExact ==
    /\ extracted_files = NamesOfExtracted(visited)
    /\ unzip_result.called =>
          IF unzip_result.success
          THEN visited = Len(members) /\ unzip_result.files = extracted_files
          ELSE extract_to = {} /\ unzip_result.files = <<>>

\* C38 as stated: no member whose name is absolute or contains '..' or '~'
\* is extracted, the list holds exactly the names of the extracted members,
\* and a return with success has visited every member.
C38_NoUnsafeNameExtracted ==
    /\ \A i \in Extracted : ~UnsafeName(members[i])
    /\ ListIsExact

\* C38, amended: no member whose normalised name (os.path.normpath) is
\* absolute or contains '..' or '~' is extracted, and every file written
\* lies below the target directory; the list holds exactly the names of the
\* extracted members, in order; a return with success has visited every
\* member, whether or not an earlier one was skipped or failed; a return
\* with failure has extracted nothing.
C38_NoUnsafePathExtracted ==
    /\ \A e \in extract_to :
          /\ ~UnsafeName(normpath(members[e.member]))
          /\ ~isabs(e.path)
          /\ <<".", ".">> \notin Range(split(e.path, "/"))
    /\ ListIsExact

\* The first member is skipped as unsafe and the second, whose name contains
\* '..' but normalises to b, is extracted and returned.
C38_Witness ==
    /\ unzip_result.called /\ unzip_result.success
    /\ Len(members) = 2
    /\ UnsafeName(normpath(members[1]))
    /\ members[2] = <<"a", "/", ".", ".", "/", "b">>
    /\ unzip_result.files = <<members[2]>>
    /\ extract_to = {[member |-> 2, path |-> <<"a", "/", "b">>]}

====
